---- MODULE Spec2Model ----
(***************************************************************************)
(* Region-based managed heap of goodtime (JavaScript version): heap.js,    *)
(* wrappers (testGC.js, second file), gc.js, the array API (part_000).     *)
(* Memory is modelled byte by byte; every operator takes the heap record   *)
(*   h = [mem, cc, regs, ctr, made]                                        *)
(*   mem  : the pooled buffers __rootedContents, flattened                 *)
(*          (buffer r, index at  ->  mem[r * REGION_SIZE + at])            *)
(*   cc   : Heap.__contentCounter                                          *)
(*   regs : Allocator.regions (region indices, current region last)        *)
(*   ctr  : the in-memory `counter` of the Region descriptor that          *)
(*          createRegion returned for each handed-out region               *)
(*   made : for each handed-out region, the kinds of the monos that        *)
(*          createMono made in it, in order (history)                      *)
(* and returns [h, err, val]: the heap afterwards, the exception thrown    *)
(* ("NONE" when none) and the returned value.                              *)
(***************************************************************************)
EXTENDS Integers, Sequences, FiniteSets, TLC

\* ---- bounds of the model (the program uses 1024000 and 256) ----
REGION_SIZE == 64
NUMBER_REGIONS == 5

\* ---- program constants (consts.js) ----
REGION_EDEN == 11
REGION_HEAD_SIZE == 5
MONO_INT32 == 1
MONO_ADDRESS == 11
MONO_FLOAT64 == 2
MONO_ARRAY_S8 == 3
MONO_CHUNK_S8 == 31
MONO_STRING_S8 == 4
MONO_OBJECT_S8 == 5
MONO_NAMED_PROPERTY_S8 == 6
MONO_CHUNK_SIZE == 8

NumBuffers == NUMBER_REGIONS + 1
HeapBytes == NumBuffers * REGION_SIZE
Byte == 0..255

Ok(h, v) == [h |-> h, err |-> "NONE", val |-> v]
Throw(h, e) == [h |-> h, err |-> e, val |-> 0]

\* ---- byte codec (DataView defaults: big-endian) ----
\* bytes of a 32-bit value, most significant first (setUint32 / setInt32)
Bytes32(v) ==
  << (v \div 16777216) % 256, (v \div 65536) % 256, (v \div 256) % 256, v % 256 >>

\* mem with the byte sequence bs stored from index at of buffer r;
\* a typed array ignores a store past its end
RECURSIVE StoreFrom(_, _, _, _, _)
StoreFrom(mem, r, at, bs, i) ==
  IF i > Len(bs) THEN mem
  ELSE StoreFrom(IF at + i - 1 < REGION_SIZE
                 THEN [mem EXCEPT ![r * REGION_SIZE + at + i - 1] = bs[i]]
                 ELSE mem,
                 r, at, bs, i + 1)

Store(mem, r, at, bs) == StoreFrom(mem, r, at, bs, 1)

readUint8(mem, r, at) ==
  IF at > REGION_SIZE \/ at < 0 THEN [err |-> "OUT_OF_RANGE", val |-> 0]
  ELSE IF at = REGION_SIZE THEN [err |-> "NONE", val |-> -1]   \* undefined
  ELSE [err |-> "NONE", val |-> mem[r * REGION_SIZE + at]]

readUint32(mem, r, at) ==
  IF at + 4 > REGION_SIZE \/ at < 0 THEN [err |-> "OUT_OF_RANGE", val |-> 0]
  ELSE LET b == [i \in 0..3 |-> mem[r * REGION_SIZE + at + i]]
       IN [err |-> "NONE",
           val |-> b[0] * 16777216 + b[1] * 65536 + b[2] * 256 + b[3]]

readInt32(mem, r, at) ==
  IF at + 4 > REGION_SIZE \/ at < 0 THEN [err |-> "OUT_OF_RANGE", val |-> 0]
  ELSE LET b == [i \in 0..3 |-> mem[r * REGION_SIZE + at + i]]
           hi == IF b[0] >= 128 THEN b[0] - 256 ELSE b[0]
       IN [err |-> "NONE",
           val |-> hi * 16777216 + b[1] * 65536 + b[2] * 256 + b[3]]

readAddress(mem, r, at) == readUint32(mem, r, at)

writeUint8(mem, r, at, byte) ==
  IF at + 1 > REGION_SIZE \/ at < 0 THEN [err |-> "OUT_OF_RANGE", mem |-> mem]
  ELSE [err |-> "NONE", mem |-> Store(mem, r, at, <<byte>>)]

writeUint32(mem, r, at, uint32) ==
  IF at + 4 > REGION_SIZE \/ at < 0 THEN [err |-> "OUT_OF_RANGE", mem |-> mem]
  ELSE [err |-> "NONE", mem |-> Store(mem, r, at, Bytes32(uint32))]

\* a write of the low 16 bits only
writeInt16(mem, r, at, int32) ==
  IF at + 4 > REGION_SIZE \/ at < 0 THEN [err |-> "OUT_OF_RANGE", mem |-> mem]
  ELSE [err |-> "NONE",
        mem |-> Store(mem, r, at + 2, <<(int32 \div 256) % 256, int32 % 256>>)]

writeInt32(mem, r, at, int32) ==
  IF at + 4 > REGION_SIZE \/ at < 0 THEN [err |-> "OUT_OF_RANGE", mem |-> mem]
  ELSE [err |-> "NONE", mem |-> Store(mem, r, at, Bytes32(int32))]

writeAddress(mem, r, at, address) == writeUint32(mem, r, at, address)

\* ---- float64: host doubles are the quarters q/4, |q| < 4096 ----
\* floor(log2(m)) for 1 <= m < 4096
Log2(m) == CHOOSE k \in 0..11 : 2^k <= m /\ m < 2^(k + 1)

\* IEEE-754 binary64 of q/4, big-endian (setFloat64)
BytesFloat64(q) ==
  IF q = 0 THEN <<0, 0, 0, 0, 0, 0, 0, 0>>
  ELSE LET s == IF q < 0 THEN 1 ELSE 0
           m == IF q < 0 THEN -q ELSE q
           k == Log2(m)
           e == 1023 + k - 2
           f == (m - 2^k) * 2^(12 - k)      \* top 12 bits of the fraction
       IN << s * 128 + e \div 16, (e % 16) * 16 + f \div 256, f % 256,
             0, 0, 0, 0, 0 >>

\* the double stored in 8 bytes, as quarters; "NaQ" when it is none of them
Float64Of(b) ==
  LET s == b[1] \div 128
      e == (b[1] % 128) * 16 + b[2] \div 16
      f == (b[2] % 16) * 256 + b[3]
      k == e - 1021
  IN IF \E i \in 4..8 : b[i] # 0 THEN "NaQ"
     ELSE IF e = 0 /\ f = 0 THEN (IF s = 0 THEN 0 ELSE "NaQ")
     ELSE IF k \notin 0..11 THEN "NaQ"
     ELSE IF f % 2^(12 - k) # 0 THEN "NaQ"
     ELSE (IF s = 1 THEN -1 ELSE 1) * (2^k + f \div 2^(12 - k))

readFloat64(mem, r, at) ==
  IF at + 8 > REGION_SIZE \/ at < 0 THEN [err |-> "OUT_OF_RANGE", val |-> 0]
  ELSE [err |-> "NONE",
        val |-> Float64Of([i \in 1..8 |-> mem[r * REGION_SIZE + at + i - 1]])]

writeFloat64(mem, r, at, q) ==
  IF at + 8 > REGION_SIZE \/ at < 0 THEN [err |-> "OUT_OF_RANGE", mem |-> mem]
  ELSE [err |-> "NONE", mem |-> Store(mem, r, at, BytesFloat64(q))]

\* ---- Mono ----
KnownKinds ==
  {MONO_INT32, MONO_ADDRESS, MONO_FLOAT64, MONO_ARRAY_S8, MONO_CHUNK_S8,
   MONO_STRING_S8, MONO_OBJECT_S8, MONO_NAMED_PROPERTY_S8}

\* Mono.prototype.sizeFromKind; 0 stands for the throw "Wrong Mono kind"
sizeFromKind(kind) ==
  CASE kind = MONO_INT32 -> 5
    [] kind = MONO_ADDRESS -> 5
    [] kind = MONO_FLOAT64 -> 9
    [] kind = MONO_ARRAY_S8 -> 42
    [] kind = MONO_CHUNK_S8 -> 38
    [] kind = MONO_STRING_S8 -> 69
    [] kind = MONO_OBJECT_S8 -> 73
    [] kind = MONO_NAMED_PROPERTY_S8 -> 73
    [] OTHER -> 0

\* a Mono descriptor: region index, kind, offsets inside the region
Mono(r, kind, beginFrom) ==
  [region |-> r, kind |-> kind, beginFrom |-> beginFrom,
   valueFrom |-> beginFrom + 1, endAt |-> beginFrom + sizeFromKind(kind) - 1]

\* a heapAddress that leaves out the base of the mono's region
heapAddressInRegion(mono) == mono.beginFrom

heapAddress(mono) == mono.region * REGION_SIZE + mono.beginFrom

\* the Mono descriptor of the mono of that kind at a heap address
MonoAt(address, kind) == Mono(address \div REGION_SIZE, kind, address % REGION_SIZE)

\* ---- Region ----
\* Region.prototype.readKind: an untouched buffer gets the kind REGION_EDEN
readKind(mem, r) ==
  LET kind == mem[r * REGION_SIZE + 4]
  IN [mem |-> IF kind = 0 THEN Store(mem, r, 4, <<REGION_EDEN>>) ELSE mem,
      kind |-> IF kind = 0 THEN REGION_EDEN ELSE kind]

\* Region.prototype.readCounter: an untouched buffer gets the counter 5
readCounter(mem, r) ==
  LET counter == readUint32(mem, r, 0).val
  IN [mem |-> IF counter = 0 THEN Store(mem, r, 0, Bytes32(5)) ELSE mem,
      counter |-> IF counter = 0 THEN 5 ELSE counter]

\* the descriptor, given what readKind and then readCounter returned
RegionOf(kind, c) == [mem |-> c.mem, counter |-> c.counter, kind |-> kind]

RegionAfterKind(k, r) == RegionOf(k.kind, readCounter(k.mem, r))

\* new Region(heap, beginFrom, size, content): readKind then readCounter,
\* both of which initialise the header of an untouched buffer
Region(mem, r) == RegionAfterKind(readKind(mem, r), r)

\* a capable that asks for room for the header byte only (the default n = 1)
capableOfHeader(counter, n) == ~(counter + 1 > REGION_SIZE)

\* a capable that refuses a mono ending at the last byte of the region
capableBelowSize(counter, n) == ~(counter + n >= REGION_SIZE)

\* Region.prototype.capable
capable(counter, n) == ~(counter + n > REGION_SIZE)

\* a createMono that advances the counter of the descriptor only
createMonoUnpersisted(h, r, kind) ==
  LET increase == sizeFromKind(kind)
      counter == h.ctr[r + 1]
  IN IF ~capable(counter, increase) THEN Ok(h, -1)
     ELSE Ok([h EXCEPT !.mem = Store(h.mem, r, counter, <<kind>>),
                       !.ctr[r + 1] = counter + increase,
                       !.made[r + 1] = Append(@, kind)], counter)

\* Region.prototype.createMono on the descriptor createRegion returned for r;
\* val is the new mono's offset, or -1 for the `false` of a full region
createMono(h, r, kind) ==
  LET increase == sizeFromKind(kind)
      counter == h.ctr[r + 1]
  IN IF ~capable(counter, increase) THEN Ok(h, -1)
     ELSE Ok([h EXCEPT !.mem = Store(Store(h.mem, r, counter, <<kind>>),  \* writeHeader
                                     r, 0, Bytes32(counter + increase)),  \* writeCounter
                       !.ctr[r + 1] = counter + increase,
                       !.made[r + 1] = Append(@, kind)], counter)

\* the loop of Region.prototype.traverse from beginFrom on; visited are the
\* monos the callback has been given
RECURSIVE traverseFrom(_, _, _, _, _)
traverseFrom(mem, r, beginFrom, counter, visited) ==
  IF ~(beginFrom < counter) THEN [err |-> "NONE", val |-> visited]
  ELSE LET kind == readUint8(mem, r, beginFrom)
       IN IF kind.err # "NONE" THEN [err |-> kind.err, val |-> visited]
          ELSE IF kind.val = 0 THEN [err |-> "NONE", val |-> visited]
          ELSE IF sizeFromKind(kind.val) = 0 THEN [err |-> "WRONG_KIND", val |-> visited]
          ELSE traverseFrom(mem, r, Mono(r, kind.val, beginFrom).endAt + 1, counter,
                            Append(visited, Mono(r, kind.val, beginFrom)))

\* a traverse whose next mono begins at the last byte of the one visited
RECURSIVE traverseFromEndAt(_, _, _, _, _)
traverseFromEndAt(mem, r, beginFrom, counter, visited) ==
  IF ~(beginFrom < counter) THEN [err |-> "NONE", val |-> visited]
  ELSE LET kind == readUint8(mem, r, beginFrom)
       IN IF kind.err # "NONE" THEN [err |-> kind.err, val |-> visited]
          ELSE IF kind.val = 0 THEN [err |-> "NONE", val |-> visited]
          ELSE IF sizeFromKind(kind.val) = 0 THEN [err |-> "WRONG_KIND", val |-> visited]
          ELSE traverseFromEndAt(mem, r, Mono(r, kind.val, beginFrom).endAt, counter,
                                 Append(visited, Mono(r, kind.val, beginFrom)))

traverseToEndAt(mem, r, counter) == traverseFromEndAt(mem, r, REGION_HEAD_SIZE, counter, <<>>)

\* Region.prototype.traverse with a callback that collects the monos
traverse(mem, r, counter) == traverseFrom(mem, r, REGION_HEAD_SIZE, counter, <<>>)

\* ---- Heap ----
\* a createRegion that passes over one buffer with each region it hands out
createRegionSkipping(h, d) ==
  Ok([h EXCEPT !.mem = d.mem, !.cc = h.cc + 2,
               !.ctr = Append(Append(h.ctr, d.counter), REGION_HEAD_SIZE),
               !.made = Append(Append(h.made, <<>>), <<>>)], h.cc)

\* createRegion once the Region descriptor d is built
createRegionOf(h, d) ==
  Ok([h EXCEPT !.mem = d.mem, !.cc = h.cc + 1,
               !.ctr = Append(h.ctr, d.counter),
               !.made = Append(h.made, <<>>)], h.cc)

createRegion(h) ==
  IF h.cc >= NumBuffers THEN Throw(h, "OOM")
  ELSE createRegionOf(h, Region(h.mem, h.cc))

\* fetchMono once the Region descriptor d of the address is built
fetchMonoIn(d, address) ==
  LET monoKind == d.mem[address]
  IN IF monoKind \notin KnownKinds
     THEN [mem |-> d.mem, err |-> "WRONG_KIND", val |-> 0]
     ELSE [mem |-> d.mem, err |-> "NONE", val |-> MonoAt(address, monoKind)]

\* Heap.prototype.fetchMono: the Region descriptor it builds may initialise the
\* buffer's header; val is the Mono descriptor
fetchMono(mem, address) ==
  IF address \div REGION_SIZE > NUMBER_REGIONS
  THEN [mem |-> mem, err |-> "OUT_OF_REGION_RANGE", val |-> 0]
  ELSE fetchMonoIn(Region(mem, address \div REGION_SIZE), address)

\* fetchRegion once the Region descriptor d is built; val is the region index
fetchRegionOf(d, regionIndex) == [mem |-> d.mem, err |-> "NONE", val |-> regionIndex]

\* Heap.prototype.fetchRegion
fetchRegion(mem, address) ==
  IF address \div REGION_SIZE > NUMBER_REGIONS
  THEN [mem |-> mem, err |-> "OUT_OF_REGION_RANGE", val |-> 0]
  ELSE fetchRegionOf(Region(mem, address \div REGION_SIZE), address \div REGION_SIZE)

\* ---- Allocator ----
\* the address of the mono that createMono made (m) in region r
allocateIn(m, r) == Ok(m.h, r * REGION_SIZE + m.val)

\* allocate in the region createRegion returned (c), now the latest region
allocateNew(h, monoKind, c) ==
  IF c.err # "NONE" THEN Throw(h, c.err)
  ELSE allocateIn(createMono([c.h EXCEPT !.regs = Append(h.regs, c.val)],
                             c.val, monoKind), c.val)

\* Allocator.prototype.allocate; val is the heap address of the new mono
allocate(h, monoKind) ==
  LET last == h.regs[Len(h.regs)]
  IN IF ~capable(h.ctr[last + 1], sizeFromKind(monoKind))
     THEN allocateNew(h, monoKind, createRegion(h))
     ELSE allocateIn(createMono(h, last, monoKind), last)

\* the heap once its first region is created (c)
NewHeapOf(c) == [c.h EXCEPT !.regs = <<c.val>>]

\* new Heap(): zeroed buffers, region 0 handed to the allocator
NewHeap ==
  NewHeapOf(createRegion([mem |-> [x \in 0..(HeapBytes - 1) |-> 0], cc |-> 0,
                          regs |-> <<>>, ctr |-> <<>>, made |-> <<>>]))

\* ---- wrappers (typed views over a mono) ----
\* a chunk view: region index and the region offsets of its fields
WrappedChunk(mono) ==
  [region |-> mono.region, beginFrom |-> mono.beginFrom,
   elementsFrom |-> mono.valueFrom + 1, atChunkLength |-> mono.valueFrom,
   atLength |-> -1, atToNext |-> mono.endAt - 3]

WrappedArray(mono) ==
  [region |-> mono.region, beginFrom |-> mono.beginFrom,
   elementsFrom |-> mono.valueFrom + 5, atChunkLength |-> mono.valueFrom + 4,
   atLength |-> mono.valueFrom, atToNext |-> mono.endAt - 3]

\* the WrappedArray a client holds for the array mono at heap address a
ArrayAt(a) == WrappedArray(Mono(a \div REGION_SIZE, MONO_ARRAY_S8, a % REGION_SIZE))

\* the `false` that findChunk / fetchNextChunk return for a missing chunk
NoChunk ==
  [region |-> -1, beginFrom |-> -1, elementsFrom |-> -1, atChunkLength |-> -1,
   atLength |-> -1, atToNext |-> -1]

addressFromIndex(w, idx) == w.elementsFrom + idx * 4

readChunkLength(mem, w) == readUint8(mem, w.region, w.atChunkLength)

isChunkFull(mem, w) == readChunkLength(mem, w).val + 1 > MONO_CHUNK_SIZE

\* chunkAppend once the element is written (w1): the chunk length goes up
chunkAppendCount(w, currentLength, w1) ==
  IF w1.err # "NONE" THEN w1
  ELSE writeUint8(w1.mem, w.region, w.atChunkLength, currentLength + 1)

\* WrappedChunk.prototype.chunkAppend with the element's heap address
chunkAppend(mem, w, address) ==
  IF isChunkFull(mem, w) THEN [err |-> "NONE", mem |-> mem]
  ELSE LET currentLength == readChunkLength(mem, w).val
       IN chunkAppendCount(w, currentLength,
            writeAddress(mem, w.region, addressFromIndex(w, currentLength), address))

\* WrappedChunk.prototype.chunkUpdateAddress
chunkUpdateAddress(mem, w, index, address) ==
  LET currentLength == readChunkLength(mem, w).val
  IN IF index < 0 \/ index >= currentLength THEN [err |-> "NONE", mem |-> mem]
     ELSE writeAddress(mem, w.region, addressFromIndex(w, index), address)

\* WrappedChunk.prototype.chunkIndex: val is the fetched Mono (a Wrapped)
chunkIndex(mem, w, idxChunk) ==
  LET a == readAddress(mem, w.region, addressFromIndex(w, idxChunk))
  IN IF a.err # "NONE" THEN [mem |-> mem, err |-> a.err, val |-> 0]
     ELSE fetchMono(mem, a.val)

\* a setChunkNext that leaves the new chunk unlinked
setChunkNextDropped(mem, w, address) == [err |-> "NONE", mem |-> mem]

\* WrappedChunk.prototype.setChunkNext
setChunkNext(mem, w, address) == writeAddress(mem, w.region, w.atToNext, address)

\* the chunk view of the mono that fetchMono returned (f)
fetchNextChunkOf(f) ==
  IF f.err # "NONE" THEN [mem |-> f.mem, err |-> f.err, val |-> NoChunk]
  ELSE [mem |-> f.mem, err |-> "NONE", val |-> WrappedChunk(f.val)]

\* WrappedChunk.prototype.fetchNextChunk: val is the next chunk view or NoChunk
fetchNextChunk(mem, w) ==
  LET a == readAddress(mem, w.region, w.atToNext)
  IN IF a.err # "NONE" THEN [mem |-> mem, err |-> a.err, val |-> NoChunk]
     ELSE IF a.val = 0 THEN [mem |-> mem, err |-> "NONE", val |-> NoChunk]
     ELSE fetchNextChunkOf(fetchMono(mem, a.val))

readLength(mem, w) == readUint32(mem, w.region, w.atLength)

\* a writeLength that stores one byte
writeLength8(mem, w, length) == writeUint8(mem, w.region, w.atLength, length)

writeLength(mem, w, length) == writeUint32(mem, w.region, w.atLength, length)

\* the loop of WrappedArray.prototype.findChunk, at chunkId with validChunk;
\* FindChunkNext is its body once fetchNextChunk returned n
RECURSIVE FindChunkFrom(_, _, _, _), FindChunkNext(_, _, _, _)
FindChunkNext(validChunk, chunkId, targetChunkId, n) ==
  IF n.err # "NONE"
  THEN [mem |-> n.mem, err |-> n.err, valid |-> validChunk, latest |-> NoChunk]
  ELSE IF n.val = NoChunk
  THEN [mem |-> n.mem, err |-> "NONE", valid |-> validChunk, latest |-> NoChunk]
  ELSE FindChunkFrom(n.mem, n.val, chunkId + 1, targetChunkId)

FindChunkFrom(mem, validChunk, chunkId, targetChunkId) ==
  IF chunkId >= targetChunkId
  THEN [mem |-> mem, err |-> "NONE", valid |-> validChunk, latest |-> validChunk]
  ELSE FindChunkNext(validChunk, chunkId, targetChunkId,
                     fetchNextChunk(mem, validChunk))

\* a findChunk that never walks the chain
findChunkBase(mem, w, idx) == FindChunkFrom(mem, w, 0, 0)

\* WrappedArray.prototype.findChunk: [latestValidChunk, latestChunk]
findChunk(mem, w, idx) == FindChunkFrom(mem, w, 0, idx \div MONO_CHUNK_SIZE)

\* index once findChunk returned c
indexIn(c, idx) ==
  IF c.err # "NONE" THEN [mem |-> c.mem, err |-> c.err, val |-> 0]
  ELSE IF c.latest = NoChunk THEN [mem |-> c.mem, err |-> "NO_CHUNK", val |-> 0]
  ELSE chunkIndex(c.mem, c.latest, idx % 8)

\* WrappedArray.prototype.index: val is the fetched Mono (a Wrapped)
index(mem, w, idx) ==
  LET length == readLength(mem, w)
  IN IF length.err # "NONE" THEN [mem |-> mem, err |-> length.err, val |-> 0]
     ELSE IF idx >= length.val \/ idx < 0
     THEN [mem |-> mem, err |-> "OUT_OF_RANGE", val |-> 0]
     ELSE indexIn(findChunk(mem, w, idx), idx)

\* append once writeLength returned l
appendCounted(h, length, l) ==
  IF l.err # "NONE" THEN Throw([h EXCEPT !.mem = l.mem], l.err)
  ELSE Ok([h EXCEPT !.mem = l.mem], length + 1)

\* append once chunkAppend returned a: this.writeLength(length + 1)
appendStored(h, w, length, a) ==
  IF a.err # "NONE" THEN Throw([h EXCEPT !.mem = a.mem], a.err)
  ELSE appendCounted(h, length, writeLength(a.mem, w, length + 1))

\* latestChunk.chunkAppend(address)
appendInto(h, w, address, length, latestChunk) ==
  appendStored(h, w, length, chunkAppend(h.mem, latestChunk, address))

\* append once setChunkNext returned s: the new chunk is the latest one
appendLinked(h, w, address, length, chunk, s) ==
  IF s.err # "NONE" THEN Throw([h EXCEPT !.mem = s.mem], s.err)
  ELSE appendInto([h EXCEPT !.mem = s.mem], w, address, length,
                  WrappedChunk(MonoAt(chunk, MONO_CHUNK_S8)))

\* an append that counts the element before it has a chunk to put it in
appendGrownCounted(w, address, length, valid, n) ==
  IF n.err # "NONE"
  THEN Throw([n.h EXCEPT !.mem = writeLength(n.h.mem, w, length + 1).mem], n.err)
  ELSE appendLinked(n.h, w, address, length, n.val,
                    setChunkNext(n.h.mem, valid, n.val))

\* append once allocator.chunk() returned n: latestValidChunk.setChunkNext
appendGrown(w, address, length, valid, n) ==
  IF n.err # "NONE" THEN Throw(n.h, n.err)
  ELSE appendLinked(n.h, w, address, length, n.val,
                    setChunkNext(n.h.mem, valid, n.val))

\* append once findChunk(length) returned c
appendFound(h, w, address, length, c) ==
  IF c.err # "NONE" THEN Throw(h, c.err)
  ELSE IF c.latest = NoChunk \/ isChunkFull(h.mem, c.latest)
  THEN appendGrown(w, address, length, c.valid, allocate(h, MONO_CHUNK_S8))
  ELSE appendInto(h, w, address, length, c.latest)

\* append once findChunk returned c, which may have touched the heap
appendAt(h, w, address, length, c) ==
  appendFound([h EXCEPT !.mem = c.mem], w, address, length, c)

\* WrappedArray.prototype.append with the element's heap address
append(h, w, address) ==
  LET length == readLength(h.mem, w)
  IN IF length.err # "NONE" THEN Throw(h, length.err)
     ELSE appendAt(h, w, address, length.val, findChunk(h.mem, w, length.val))

\* the loops of clone / cloneFromTo / concat: newArray.append(src.index(i))
\* for i = from .. to, where to = -1 stands for `i < src.length()`;
\* CopyIndexed is the body once index returned e, CopyAppended once append
\* returned a
RECURSIVE CopyLoop(_, _, _, _, _), CopyIndexed(_, _, _, _, _, _),
          CopyAppended(_, _, _, _, _)
CopyAppended(src, newArray, i, to, a) ==
  IF a.err # "NONE" THEN a ELSE CopyLoop(a.h, src, newArray, i + 1, to)

CopyIndexed(h, src, newArray, i, to, e) ==
  IF e.err # "NONE" THEN Throw([h EXCEPT !.mem = e.mem], e.err)
  ELSE CopyAppended(src, newArray, i, to,
                    append([h EXCEPT !.mem = e.mem], newArray, heapAddress(e.val)))

CopyLoop(h, src, newArray, i, to) ==
  LET length == readLength(h.mem, src)
  IN IF to = -1 /\ length.err # "NONE" THEN Throw(h, length.err)
     ELSE IF (IF to = -1 THEN ~(i < length.val) ELSE ~(i <= to)) THEN Ok(h, 0)
     ELSE CopyIndexed(h, src, newArray, i, to, index(h.mem, src, i))

\* `return newArray` once the loop returned c
cloneDone(address, c) == IF c.err # "NONE" THEN c ELSE Ok(c.h, address)

\* the new array (n, from allocator.array()) filled from w[from .. to]
cloneInto(w, from, to, n) ==
  IF n.err # "NONE" THEN n
  ELSE cloneDone(n.val, CopyLoop(n.h, w, ArrayAt(n.val), from, to))

\* a clone that copies the bytes of the array mono, its next pointer included
cloneShallowInto(w, n) ==
  IF n.err # "NONE" THEN n
  ELSE Ok([n.h EXCEPT !.mem =
             Store(n.h.mem, n.val \div REGION_SIZE, (n.val % REGION_SIZE) + 1,
                   [k \in 1..(sizeFromKind(MONO_ARRAY_S8) - 1) |->
                      n.h.mem[w.region * REGION_SIZE + w.beginFrom + k]])], n.val)

cloneShallow(h, w) == cloneShallowInto(w, allocate(h, MONO_ARRAY_S8))

\* WrappedArray.prototype.clone: val is the new array's heap address
clone(h, w) == cloneInto(w, 0, -1, allocate(h, MONO_ARRAY_S8))

\* a cloneFromTo that checks `from` only
cloneFromToUnchecked(h, w, from, to) ==
  LET currentLength == readLength(h.mem, w)
  IN IF currentLength.err # "NONE" THEN Throw(h, currentLength.err)
     ELSE IF from < 0 \/ from >= currentLength.val THEN Throw(h, "OUT_OF_RANGE")
     ELSE cloneInto(w, from, to, allocate(h, MONO_ARRAY_S8))

\* WrappedArray.prototype.cloneFromTo (ArraySlice)
cloneFromTo(h, w, from, to) ==
  LET currentLength == readLength(h.mem, w)
  IN IF currentLength.err # "NONE" THEN Throw(h, currentLength.err)
     ELSE IF from < 0 \/ from >= currentLength.val THEN Throw(h, "OUT_OF_RANGE")
     ELSE IF to < from \/ to >= currentLength.val THEN Throw(h, "OUT_OF_RANGE")
     ELSE cloneInto(w, from, to, allocate(h, MONO_ARRAY_S8))

\* a concat that copies the second array only
concatSecondOnly(h, w, second) ==
  cloneInto(second, 0, -1, allocate(h, MONO_ARRAY_S8))

\* concat once the first loop returned c1: the loop over the second array
concatSecond(second, address, c1) ==
  IF c1.err # "NONE" THEN c1
  ELSE cloneDone(address, CopyLoop(c1.h, second, ArrayAt(address), 0, -1))

\* concat once allocator.array() returned n: the loop over this array
concatInto(w, second, n) ==
  IF n.err # "NONE" THEN n
  ELSE concatSecond(second, n.val, CopyLoop(n.h, w, ArrayAt(n.val), 0, -1))

\* WrappedArray.prototype.concat (ArrayConcat)
concat(h, w, second) == concatInto(w, second, allocate(h, MONO_ARRAY_S8))

\* the append of ArrayPush, to the array at `target`, once clone returned c
ArrayPushOnto(target, address, c) ==
  IF c.err # "NONE" THEN c
  ELSE cloneDone(c.val, append(c.h, ArrayAt(target), address))

\* ArrayPush with the append made to the clone (c)
ArrayPushClone(address, c) == ArrayPushOnto(c.val, address, c)

\* an ArrayPush that appends the value to the array it was given
ArrayPushInPlace(h, w, address) ==
  ArrayPushOnto(heapAddress(w), address, clone(h, w))

\* ArrayPush: clone, then append the value to the clone
ArrayPush(h, w, address) == ArrayPushClone(address, clone(h, w))

\* int32 once allocate returned n: a falsy hostValue is not written
int32Write(hostValue, n) ==
  IF n.err # "NONE" \/ hostValue = 0 THEN n
  ELSE Ok([n.h EXCEPT !.mem = writeInt32(n.h.mem, n.val \div REGION_SIZE,
                                (n.val % REGION_SIZE) + 1, hostValue).mem], n.val)

\* float64 once allocate returned n: a falsy hostValue is not written
float64Write(hostValue, n) ==
  IF n.err # "NONE" \/ hostValue = 0 THEN n
  ELSE Ok([n.h EXCEPT !.mem = writeFloat64(n.h.mem, n.val \div REGION_SIZE,
                                (n.val % REGION_SIZE) + 1, hostValue).mem], n.val)

\* Allocator.prototype.int32 / float64
int32(h, hostValue) == int32Write(hostValue, allocate(h, MONO_INT32))

float64(h, hostValue) == float64Write(hostValue, allocate(h, MONO_FLOAT64))

\* Wrapped.prototype.dispatch().read() on a fetched mono: the host value of an
\* INT32 / FLOAT64 mono, null (here "null") for the kinds whose wrapper has no
\* read of its own
DispatchRead(mem, mono) ==
  CASE mono.kind = MONO_INT32 -> readInt32(mem, mono.region, mono.valueFrom)
    [] mono.kind = MONO_FLOAT64 -> readFloat64(mem, mono.region, mono.valueFrom)
    [] OTHER -> [err |-> "NONE", val |-> "null"]

\* ---- ArrayPop / ArrayShift / ArrayRemove: [newArray, element] ----
\* Wrapped.prototype.dispatch: typed tells whether the wrapper returned is a
\* typed one (WrappedInt32, WrappedFloat64, WrappedArray) or the generic
\* Wrapped itself
dispatch(mono) ==
  CASE mono.kind \in {MONO_INT32, MONO_FLOAT64, MONO_ARRAY_S8}
         -> [err |-> "NONE", typed |-> TRUE]
    [] mono.kind \in {MONO_ADDRESS, MONO_STRING_S8, MONO_OBJECT_S8,
                      MONO_NAMED_PROPERTY_S8}
         -> [err |-> "NONE", typed |-> FALSE]
    [] OTHER -> [err |-> "WRONG_KIND", typed |-> FALSE]

\* the wrapper index() returns, not dispatched: the generic Wrapped
NotDispatched == [err |-> "NONE", typed |-> FALSE]

\* read() of the wrapper of the mono at that address: Wrapped.prototype.read
\* returns null, a typed wrapper reads its payload
WrapperRead(mem, address, typed) ==
  IF typed THEN DispatchRead(mem, MonoAt(address, mem[address]))
  ELSE [err |-> "NONE", val |-> "null"]

\* a throw out of ArrayPop / ArrayShift / ArrayRemove
PairThrow(h, e) == [h |-> h, err |-> e, val |-> 0, elem |-> 0, typed |-> FALSE]

\* the pair returned once the element is fetched (e) and its wrapper chosen (d)
PairOf(h, newArray, e, d) ==
  IF d.err # "NONE" THEN PairThrow(h, d.err)
  ELSE [h |-> h, err |-> "NONE", val |-> newArray, elem |-> heapAddress(e.val),
        typed |-> d.typed]

\* the second component once index returned e: dispatched or not
PairIndexed(h, newArray, e, dispatched) ==
  IF e.err # "NONE" THEN PairThrow([h EXCEPT !.mem = e.mem], e.err)
  ELSE PairOf([h EXCEPT !.mem = e.mem], newArray, e,
              IF dispatched THEN dispatch(e.val) ELSE NotDispatched)

\* the array literal once its first component returned (s): index(idx) next
PairSliced(w, idx, dispatched, s) ==
  IF s.err # "NONE" THEN PairThrow(s.h, s.err)
  ELSE PairIndexed(s.h, s.val, index(s.h.mem, w, idx), dispatched)

\* ArrayPop: [ArraySlice(0, lastIndex - 1), index(lastIndex).dispatch()]
ArrayPop(h, w) ==
  PairSliced(w, readLength(h.mem, w).val - 1, TRUE,
             cloneFromTo(h, w, 0, readLength(h.mem, w).val - 2))

\* ArrayShift: [ArraySlice(1, length - 1), index(0).dispatch()]
ArrayShift(h, w) ==
  PairSliced(w, 0, TRUE, cloneFromTo(h, w, 1, readLength(h.mem, w).val - 1))

\* ArrayRemove in the middle once secondPart returned (s2): ArrayConcat, then
\* index(idx) as it is
RemoveSecond(w, idx, firstPart, s2) ==
  IF s2.err # "NONE" THEN PairThrow(s2.h, s2.err)
  ELSE PairSliced(w, idx, FALSE, concat(s2.h, ArrayAt(firstPart), ArrayAt(s2.val)))

\* ArrayRemove in the middle once firstPart returned (s1)
RemoveFirst(w, idx, currentLength, s1) ==
  IF s1.err # "NONE" THEN PairThrow(s1.h, s1.err)
  ELSE RemoveSecond(w, idx, s1.val, cloneFromTo(s1.h, w, idx + 1, currentLength - 1))

\* ArrayRemove
ArrayRemove(h, w, idx) ==
  LET currentLength == readLength(h.mem, w).val
  IN IF idx < 0 \/ idx >= currentLength THEN PairThrow(h, "OUT_OF_RANGE")
     ELSE IF idx = 0 THEN ArrayShift(h, w)
     ELSE IF idx = currentLength - 1 THEN ArrayPop(h, w)
     ELSE RemoveFirst(w, idx, currentLength, cloneFromTo(h, w, 0, idx - 1))

\* ---- GC (gc.js) ----
\* Region.prototype.contentCloneTo(destContent, destOffset): the bytes
\* [5, counter) of region r copied to buffer dest from destOffset on
RECURSIVE CopyBytes(_, _, _, _, _, _)
CopyBytes(mem, r, dest, destOffset, i, counter) ==
  IF i >= counter THEN mem
  ELSE CopyBytes([mem EXCEPT ![dest * REGION_SIZE + destOffset + i - REGION_HEAD_SIZE]
                               = mem[r * REGION_SIZE + i]],
                 r, dest, destOffset, i + 1, counter)

contentCloneTo(mem, r, counter, dest, destOffset) ==
  IF destOffset + counter - REGION_HEAD_SIZE > REGION_SIZE
  THEN [err |-> "OUT_OF_RANGE", mem |-> mem]
  ELSE [err |-> "NONE", mem |-> CopyBytes(mem, r, dest, destOffset, REGION_HEAD_SIZE, counter)]

\* heap.heapAddress(p).regionBase(): the base address of the region of p
regionBase(p) == (p \div REGION_SIZE) * REGION_SIZE

\* heap.heapAddress(p).relocate(newBase).address
relocate(p, newBase) == newBase + (p - regionBase(p))

\* the second base recorded by mergeRegions: where lessThan60's monos are
\* said to start in the new region
SecondBase(newBeginFrom, counter40) == newBeginFrom + counter40

\* a merged counter that counts both region headers
MergedCounterBothHeaders(counter40, counter60) == counter40 + counter60

\* the counter mergeRegions gives the new region
MergedCounter(counter40, counter60) == counter40 + counter60 - REGION_HEAD_SIZE

\* mergeRegions once both contents are copied (k2): the counter of the new
\* region, the two bases recorded in mergedNewBase
mergeSecond(h, mergedNewBase, lessThan40, lessThan60, new, c40, c60, k2) ==
  IF k2.err # "NONE"
  THEN [h |-> h, err |-> k2.err, val |-> -1, bases |-> mergedNewBase]
  ELSE [h |-> [h EXCEPT !.mem = writeUint32(k2.mem, new, 0, MergedCounter(c40, c60)).mem,
                        !.ctr[new + 1] = MergedCounter(c40, c60)],
        err |-> "NONE", val |-> new,
        bases |-> (lessThan60 * REGION_SIZE :> SecondBase(new * REGION_SIZE, c40))
                  @@ (lessThan40 * REGION_SIZE :> new * REGION_SIZE)
                  @@ mergedNewBase]

\* mergeRegions once lessThan40's content is copied (k1): lessThan60's is
mergeFirst(h, mergedNewBase, lessThan40, lessThan60, new, c40, c60, k1) ==
  IF k1.err # "NONE"
  THEN [h |-> h, err |-> k1.err, val |-> -1, bases |-> mergedNewBase]
  ELSE mergeSecond([h EXCEPT !.mem = k1.mem], mergedNewBase, lessThan40, lessThan60,
                   new, c40, c60, contentCloneTo(k1.mem, lessThan60, c60, new, c40))

\* mergeRegions once createRegion returned c
mergeInto(h, mergedNewBase, lessThan40, lessThan60, c) ==
  IF c.err # "NONE" THEN [h |-> h, err |-> c.err, val |-> -1, bases |-> mergedNewBase]
  ELSE mergeFirst(c.h, mergedNewBase, lessThan40, lessThan60, c.val,
                  h.ctr[lessThan40 + 1], h.ctr[lessThan60 + 1],
                  contentCloneTo(c.h.mem, lessThan40, h.ctr[lessThan40 + 1], c.val,
                                 REGION_HEAD_SIZE))

\* GC.prototype.mergeRegions; lessThan40 / lessThan60 are region indices, their
\* descriptors are the ones createRegion returned; val is the new region
mergeRegions(h, mergedNewBase, lessThan40, lessThan60) ==
  mergeInto(h, mergedNewBase, lessThan40, lessThan60, createRegion(h))

\* a callback that rewrites every slot, taking a missing rebase entry as base 0
RewriteSlotUnchecked(mem, w, idx, newBases) ==
  LET p == readAddress(mem, w.region, addressFromIndex(w, idx))
  IN IF p.err # "NONE" THEN [err |-> p.err, mem |-> mem]
     ELSE chunkUpdateAddress(mem, w, idx,
                             relocate(p.val, IF regionBase(p.val) \in DOMAIN newBases
                                             THEN newBases[regionBase(p.val)] ELSE 0))

\* the callback of rewriteAddress for slot idx of an array / chunk view
RewriteSlot(mem, w, idx, newBases) ==
  LET p == readAddress(mem, w.region, addressFromIndex(w, idx))
  IN IF p.err # "NONE" THEN [err |-> p.err, mem |-> mem]
     ELSE IF regionBase(p.val) \notin DOMAIN newBases \/ newBases[regionBase(p.val)] = 0
     THEN [err |-> "NONE", mem |-> mem]
     ELSE chunkUpdateAddress(mem, w, idx, relocate(p.val, newBases[regionBase(p.val)]))

\* traverseChunkAddresses with that callback, from slot i on; RewriteNext is
\* its body once the callback returned s
RECURSIVE RewriteSlots(_, _, _, _), RewriteNext(_, _, _, _)
RewriteNext(w, i, newBases, s) ==
  IF s.err # "NONE" THEN s ELSE RewriteSlots(s.mem, w, i + 1, newBases)

RewriteSlots(mem, w, i, newBases) ==
  LET n == readChunkLength(mem, w)
  IN IF n.err # "NONE" THEN [err |-> n.err, mem |-> mem]
     ELSE IF ~(i < n.val) THEN [err |-> "NONE", mem |-> mem]
     ELSE RewriteNext(w, i, newBases, RewriteSlot(mem, w, i, newBases))

\* the write of the MONO_ADDRESS case, given the pointer (p) the wrapper read
rewriteAddressValue(mem, mono, newBases, p) ==
  IF p.err # "NONE" THEN [err |-> p.err, mem |-> mem]
  ELSE IF regionBase(p.val) \notin DOMAIN newBases \/ newBases[regionBase(p.val)] = 0
  THEN [err |-> "NONE", mem |-> mem]
  ELSE writeInt32(mem, mono.region, mono.valueFrom,
                  relocate(p.val, newBases[regionBase(p.val)]))

\* a rewriteAddress whose module imports WrappedAddress: the MONO_ADDRESS case
\* runs as written
rewriteAddressImported(mem, mono, newBases) ==
  CASE mono.kind = MONO_ADDRESS ->
         rewriteAddressValue(mem, mono, newBases,
                             readInt32(mem, mono.region, mono.valueFrom))
    [] mono.kind = MONO_ARRAY_S8 -> RewriteSlots(mem, WrappedArray(mono), 0, newBases)
    [] mono.kind = MONO_CHUNK_S8 -> RewriteSlots(mem, WrappedChunk(mono), 0, newBases)
    [] OTHER -> [err |-> "NONE", mem |-> mem]

\* GC.prototype.rewriteAddress
rewriteAddress(mem, mono, newBases) ==
  CASE mono.kind = MONO_ADDRESS -> [err |-> "REFERENCE_ERROR", mem |-> mem]
    [] mono.kind = MONO_ARRAY_S8 -> RewriteSlots(mem, WrappedArray(mono), 0, newBases)
    [] mono.kind = MONO_CHUNK_S8 -> RewriteSlots(mem, WrappedChunk(mono), 0, newBases)
    [] OTHER -> [err |-> "NONE", mem |-> mem]

\* Region.prototype.traverse with the callback of readdressRegion;
\* ReaddressNext is its body once the callback returned w
RECURSIVE Readdress(_, _, _, _, _), ReaddressNext(_, _, _, _, _)
ReaddressNext(newBases, r, next, counter, w) ==
  IF w.err # "NONE" THEN w ELSE Readdress(w.mem, newBases, r, next, counter)

Readdress(mem, newBases, r, beginFrom, counter) ==
  IF ~(beginFrom < counter) THEN [err |-> "NONE", mem |-> mem]
  ELSE LET kind == readUint8(mem, r, beginFrom)
       IN IF kind.err # "NONE" THEN [err |-> kind.err, mem |-> mem]
          ELSE IF kind.val = 0 THEN [err |-> "NONE", mem |-> mem]
          ELSE IF kind.val \notin KnownKinds THEN [err |-> "WRONG_KIND", mem |-> mem]
          ELSE ReaddressNext(newBases, r, beginFrom + sizeFromKind(kind.val), counter,
                             rewriteAddress(mem, Mono(r, kind.val, beginFrom), newBases))

readdressRegion(h, newBases, newRegion) ==
  Readdress(h.mem, newBases, newRegion, REGION_HEAD_SIZE, h.ctr[newRegion + 1])

\* the keys of a bucket, highest region base first
RECURSIVE SortedKeysDescending(_)
SortedKeysDescending(S) ==
  IF S = {} THEN <<>>
  ELSE LET m == CHOOSE x \in S : \A y \in S : x >= y
       IN <<m>> \o SortedKeysDescending(S \ {m})

\* the keys of a bucket in Object.keys order: ascending region base
RECURSIVE SortedKeys(_)
SortedKeys(S) ==
  IF S = {} THEN <<>>
  ELSE LET m == CHOOSE x \in S : \A y \in S : x <= y
       IN <<m>> \o SortedKeys(S \ {m})

\* the first loop of minorGC, from pair i on; pairs is the history of merges;
\* MergeNext is its body once mergeRegions returned m
RECURSIVE MergeLoop(_, _, _, _, _, _), MergeNext(_, _, _, _, _, _, _)
MergeNext(h, newBases, keys40, keys60, i, pairs, m) ==
  IF m.err # "NONE"
  THEN [h |-> m.h, err |-> m.err, bases |-> newBases, pairs |-> pairs]
  ELSE MergeLoop(m.h, m.bases, keys40, keys60, i + 1,
                 Append(pairs, [a |-> keys40[i], b |-> keys60[i], new |-> m.val,
                                ca |-> h.ctr[keys40[i] + 1],
                                cb |-> h.ctr[keys60[i] + 1]]))

MergeLoop(h, newBases, keys40, keys60, i, pairs) ==
  IF i > Len(keys40) \/ i > Len(keys60)
  THEN [h |-> h, err |-> "NONE", bases |-> newBases, pairs |-> pairs]
  ELSE MergeNext(h, newBases, keys40, keys60, i, pairs,
                 mergeRegions(h, newBases, keys40[i], keys60[i]))

\* the second loop of minorGC; ReaddressedNext is its body once
\* readdressRegion returned w
RECURSIVE ReaddressLoop(_, _, _, _), ReaddressedNext(_, _, _, _, _)
ReaddressedNext(h, newBases, pairs, i, w) ==
  IF w.err # "NONE" THEN Throw([h EXCEPT !.mem = w.mem], w.err)
  ELSE ReaddressLoop([h EXCEPT !.mem = w.mem], newBases, pairs, i + 1)

ReaddressLoop(h, newBases, pairs, i) ==
  IF i > Len(pairs) THEN Ok(h, 0)
  ELSE ReaddressedNext(h, newBases, pairs, i,
                       readdressRegion(h, newBases, pairs[i].new))

\* what minorGC leaves once the second loop returned w
minorGCDone(pairs, w) == [h |-> w.h, err |-> w.err, val |-> pairs]

\* the same, with the merged regions then freed (zeroed)
minorGCFreed(pairs, w) ==
  [h |-> [w.h EXCEPT !.mem =
            [k \in DOMAIN w.h.mem |->
               IF \E i \in 1..Len(pairs) : k \div REGION_SIZE \in {pairs[i].a, pairs[i].b}
               THEN 0 ELSE w.h.mem[k]]],
   err |-> w.err, val |-> pairs]

\* minorGC once the first loop returned m
minorGCMerged(m) ==
  IF m.err # "NONE" THEN [h |-> m.h, err |-> m.err, val |-> m.pairs]
  ELSE minorGCDone(m.pairs, ReaddressLoop(m.h, m.bases, m.pairs, 1))

minorGCMergedFreed(m) ==
  IF m.err # "NONE" THEN [h |-> m.h, err |-> m.err, val |-> m.pairs]
  ELSE minorGCFreed(m.pairs, ReaddressLoop(m.h, m.bases, m.pairs, 1))

\* a minorGC that then frees (zeroes) the regions it merged
minorGCFreeing(h, byKind40, byKind60) ==
  minorGCMergedFreed(MergeLoop(h, << >>, SortedKeys(byKind40), SortedKeys(byKind60),
                               1, <<>>))

\* a minorGC that sweeps each merged region right after its pair is merged,
\* before the later pairs are; InterleavedMerged and InterleavedSwept are the
\* body of its loop once mergeRegions (m) and readdressRegion (w) returned
RECURSIVE InterleavedLoop(_, _, _, _, _, _), InterleavedMerged(_, _, _, _, _, _),
          InterleavedSwept(_, _, _, _, _, _, _)
InterleavedSwept(h, newBases, keys40, keys60, i, pairs, w) ==
  IF w.err # "NONE" THEN [h |-> [h EXCEPT !.mem = w.mem], err |-> w.err, val |-> pairs]
  ELSE InterleavedLoop([h EXCEPT !.mem = w.mem], newBases, keys40, keys60, i + 1, pairs)

InterleavedMerged(h, keys40, keys60, i, pairs, m) ==
  IF m.err # "NONE" THEN [h |-> m.h, err |-> m.err, val |-> pairs]
  ELSE InterleavedSwept(m.h, m.bases, keys40, keys60, i,
                        Append(pairs, [a |-> keys40[i], b |-> keys60[i], new |-> m.val,
                                       ca |-> h.ctr[keys40[i] + 1],
                                       cb |-> h.ctr[keys60[i] + 1]]),
                        readdressRegion(m.h, m.bases, m.val))

InterleavedLoop(h, newBases, keys40, keys60, i, pairs) ==
  IF i > Len(keys40) \/ i > Len(keys60) THEN [h |-> h, err |-> "NONE", val |-> pairs]
  ELSE InterleavedMerged(h, keys40, keys60, i, pairs,
                         mergeRegions(h, newBases, keys40[i], keys60[i]))

minorGCInterleaved(h, byKind40, byKind60) ==
  InterleavedLoop(h, << >>, SortedKeys(byKind40), SortedKeys(byKind60), 1, <<>>)

\* GC.prototype.minorGC: val is the history of the pairs it merged
minorGC(h, byKind40, byKind60) ==
  minorGCMerged(MergeLoop(h, << >>, SortedKeys(byKind40), SortedKeys(byKind60), 1, <<>>))

\* ---- the client of the heap (the interpreter, the test functions) ----
\* heap      : the heap record h
\* arrays    : heap addresses of the WrappedArray wrappers the client holds
\* scalars   : heap addresses of the WrappedInt32 / WrappedFloat64 it holds
\* held      : regions whose descriptor the client got from heap.createRegion()
\* appended  : for each array made by allocator.array() or createMono, the
\*             addresses passed to its successful append calls, in order
\* hostValue : for each scalar, the host value last written through its wrapper
\* result    : the call just made, what it returned or threw
VARIABLES heap, arrays, scalars, held, appended, hostValue, result,
          lessThan40, lessThan60, gcLog

vars == <<heap, arrays, scalars, held, appended, hostValue, result,
          lessThan40, lessThan60, gcLog>>
gcVars == <<lessThan40, lessThan60, gcLog>>

\* ---- bounds on the client ----
MaxPerKind == 1
MaxFresh == 1
MaxArrays == 3
MaxLen == 2
MaxMonos == 2

\* host values: int32, and doubles in quarters (6 is 1.5, -9 is -2.25)
IntValues == {0, 7, -1025, 2147483647, -2147483647 - 1}
FloatValues == {0, 6, -9, 7}

\* what the client keeps of a call: all of it for a call that returned a new
\* value, the operation and the error for a read or a throw
Result(op, r, arr, a1, a2) ==
  IF r.err = "NONE" /\ op \notin {"index", "read"}
  THEN [op |-> op, err |-> r.err, val |-> r.val, arr |-> arr, a1 |-> a1, a2 |-> a2]
  ELSE [op |-> op, err |-> r.err, val |-> 0, arr |-> -1, a1 |-> 0, a2 |-> 0]

Init ==
  /\ heap = NewHeap
  /\ arrays = {}
  /\ scalars = {}
  /\ held = {}
  /\ appended = << >>
  /\ hostValue = << >>
  /\ result = Result("new Heap", Ok(0, 0), -1, 0, 0)
  /\ lessThan40 = {}
  /\ lessThan60 = {}
  /\ gcLog = <<>>

\* what the client keeps of a scalar that int32 / float64 returned (r)
AllocScalar(op, v, r) ==
  /\ heap' = r.h
  /\ result' = Result(op, r, -1, v, 0)
  /\ scalars' = IF r.err = "NONE" THEN scalars \cup {r.val} ELSE scalars
  /\ hostValue' = IF r.err = "NONE" THEN (r.val :> v) @@ hostValue ELSE hostValue
  /\ UNCHANGED <<arrays, held, appended, gcVars>>

\* heap.allocator.int32(v)
AllocInt32(v) == AllocScalar("int32", v, int32(heap, v))

\* heap.allocator.float64(v)
AllocFloat64(v) == AllocScalar("float64", v, float64(heap, v))

\* what the client keeps of the array that allocate returned (r)
AllocArrayOf(r) ==
  /\ heap' = r.h
  /\ result' = Result("array", r, -1, 0, 0)
  /\ arrays' = IF r.err = "NONE" THEN arrays \cup {r.val} ELSE arrays
  /\ appended' = IF r.err = "NONE" THEN (r.val :> <<>>) @@ appended ELSE appended
  /\ UNCHANGED <<scalars, held, hostValue, gcVars>>

\* heap.allocator.array()
AllocArray == AllocArrayOf(allocate(heap, MONO_ARRAY_S8))

\* the heap and the client once the DataView write returned wr
DoWriteOf(e, w, wr) ==
  /\ heap' = [heap EXCEPT !.mem = wr.mem]
  /\ result' = Result("write", [err |-> wr.err, val |-> 0], e, w, 0)
  /\ hostValue' = IF wr.err = "NONE" THEN [hostValue EXCEPT ![e] = w] ELSE hostValue
  /\ UNCHANGED <<arrays, scalars, held, appended, gcVars>>

\* wrapper.write(w) on a scalar wrapper
DoWrite(e, w) ==
  DoWriteOf(e, w,
            IF heap.mem[e] = MONO_INT32
            THEN writeInt32(heap.mem, e \div REGION_SIZE, (e % REGION_SIZE) + 1, w)
            ELSE writeFloat64(heap.mem, e \div REGION_SIZE, (e % REGION_SIZE) + 1, w))

\* the heap and the client once append returned r
DoAppendOf(a, e, r) ==
  /\ heap' = r.h
  /\ result' = Result("append", r, a, e, 0)
  /\ appended' = IF r.err = "NONE" /\ a \in DOMAIN appended
                 THEN [appended EXCEPT ![a] = Append(@, e)] ELSE appended
  /\ UNCHANGED <<arrays, scalars, held, hostValue, gcVars>>

\* array.append(element)
DoAppend(a, e) == DoAppendOf(a, e, append(heap, ArrayAt(a), e))

\* the heap and the client once index returned r
DoIndexOf(a, i, r) ==
  /\ heap' = [heap EXCEPT !.mem = r.mem]
  /\ result' = Result("index", [err |-> r.err,
                  val |-> IF r.err = "NONE" THEN heapAddress(r.val) ELSE 0], a, i, 0)
  /\ UNCHANGED <<arrays, scalars, held, appended, hostValue, gcVars>>

\* array.index(i)  (ArrayIndex without the dispatch)
DoIndex(a, i) == DoIndexOf(a, i, index(heap.mem, ArrayAt(a), i))

\* the calls that return a new array
NewArrayCall(op, r, a, a1, a2) ==
  /\ heap' = r.h
  /\ result' = Result(op, r, a, a1, a2)
  /\ arrays' = IF r.err = "NONE" THEN arrays \cup {r.val} ELSE arrays
  /\ UNCHANGED <<scalars, held, appended, hostValue, gcVars>>

DoClone(a) == NewArrayCall("clone", clone(heap, ArrayAt(a)), a, 0, 0)

DoSlice(a, from, to) ==
  NewArrayCall("slice", cloneFromTo(heap, ArrayAt(a), from, to), a, from, to)

DoConcat(a, b) ==
  NewArrayCall("concat", concat(heap, ArrayAt(a), ArrayAt(b)), a, b, 0)

DoPush(a, e) == NewArrayCall("push", ArrayPush(heap, ArrayAt(a), e), a, e, 0)

\* the descriptor the client keeps once createRegion returned r
DoCreateRegionOf(r) ==
  /\ heap' = r.h
  /\ result' = Result("createRegion", r, -1, 0, 0)
  /\ held' = IF r.err = "NONE" THEN held \cup {r.val} ELSE held
  /\ UNCHANGED <<arrays, scalars, appended, hostValue, gcVars>>

\* heap.createRegion() called by the client, which keeps the descriptor
DoCreateRegion == DoCreateRegionOf(createRegion(heap))

\* what the client keeps of a region accessor call: the region, the offset,
\* the width of the access and the value read or written
CodecResult(op, r, at, w, err, val) ==
  [op |-> op, err |-> err, val |-> val, arr |-> r, a1 |-> at, a2 |-> w]

\* the client once a read accessor returned rd
DoCodecRead(op, r, at, w, rd) ==
  /\ result' = CodecResult(op, r, at, w, rd.err, rd.val)
  /\ UNCHANGED <<heap, arrays, scalars, held, appended, hostValue, gcVars>>

\* the heap and the client once a write accessor returned wr
DoCodecWrite(op, r, at, w, v, wr) ==
  /\ heap' = [heap EXCEPT !.mem = wr.mem]
  /\ result' = CodecResult(op, r, at, w, wr.err, v)
  /\ UNCHANGED <<arrays, scalars, held, appended, hostValue, gcVars>>

\* testRegion.readUint8(at) and the other accessors, on a held region
DoReadUint8(r, at) == DoCodecRead("readUint8", r, at, 1, readUint8(heap.mem, r, at))
DoReadUint32(r, at) == DoCodecRead("readUint32", r, at, 4, readUint32(heap.mem, r, at))
DoReadAddress(r, at) == DoCodecRead("readAddress", r, at, 4, readAddress(heap.mem, r, at))
DoReadInt32(r, at) == DoCodecRead("readInt32", r, at, 4, readInt32(heap.mem, r, at))
DoReadFloat64(r, at) == DoCodecRead("readFloat64", r, at, 8, readFloat64(heap.mem, r, at))
DoWriteUint8(r, at, v) ==
  DoCodecWrite("writeUint8", r, at, 1, v, writeUint8(heap.mem, r, at, v))
DoWriteUint32(r, at, v) ==
  DoCodecWrite("writeUint32", r, at, 4, v, writeUint32(heap.mem, r, at, v))
DoWriteAddress(r, at, v) ==
  DoCodecWrite("writeAddress", r, at, 4, v, writeAddress(heap.mem, r, at, v))
DoWriteInt32(r, at, v) ==
  DoCodecWrite("writeInt32", r, at, 4, v, writeInt32(heap.mem, r, at, v))
DoWriteFloat64(r, at, v) ==
  DoCodecWrite("writeFloat64", r, at, 8, v, writeFloat64(heap.mem, r, at, v))

\* the wrapper the client makes of the mono that createMono returned (m)
DoCreateMonoOf(r, kind, m) ==
  LET address == r * REGION_SIZE + m.val
      made == m.val # -1
  IN /\ heap' = m.h
     /\ result' = Result("createMono", Ok(m.h, IF made THEN address ELSE -1), -1, kind, 0)
     /\ scalars' = IF made /\ kind \in {MONO_INT32, MONO_FLOAT64}
                   THEN scalars \cup {address} ELSE scalars
     /\ hostValue' = IF made /\ kind \in {MONO_INT32, MONO_FLOAT64}
                     THEN (address :> 0) @@ hostValue ELSE hostValue
     /\ arrays' = IF made /\ kind = MONO_ARRAY_S8 THEN arrays \cup {address} ELSE arrays
     /\ appended' = IF made /\ kind = MONO_ARRAY_S8
                    THEN (address :> <<>>) @@ appended ELSE appended
     /\ UNCHANGED <<held, gcVars>>

\* region.createMono(kind) on a held region, and the wrapper made of the mono
DoCreateMono(r, kind) == DoCreateMonoOf(r, kind, createMono(heap, r, kind))

\* what the client keeps of a traverse (t): the monos its callback was given
DoTraverseOf(r, t) ==
  /\ result' = [op |-> "traverse", err |-> t.err, val |-> t.val,
                arr |-> -1, a1 |-> r, a2 |-> 0]
  /\ UNCHANGED <<heap, arrays, scalars, held, appended, hostValue, gcVars>>

\* region.traverse(cb) on the descriptor of region r
DoTraverse(r) == DoTraverseOf(r, traverse(heap.mem, r, heap.ctr[r + 1]))

\* GC.prototype.updateUsage(byKinds.young, region): the ratio is computed from the
\* free identifier REGION_SIZE, which gc.js never declares; `declared` tells
\* whether the host has a global of that name. Without one the first
\* statement throws and nothing is filed.
updateUsage(l40, l60, r, counter, declared) ==
  IF ~declared THEN [err |-> "REFERENCE_ERROR", l40 |-> l40, l60 |-> l60]
  ELSE IF counter * 10 < 4 * REGION_SIZE                 \* ratio < 0.4
  THEN [err |-> "NONE", l40 |-> l40 \ {r}, l60 |-> l60 \cup {r}]
  ELSE [err |-> "NONE", l40 |-> l40 \cup {r}, l60 |-> l60 \ {r}]

\* the buckets once updateUsage returned u
DoUpdateUsageOf(r, counter, u) ==
  /\ lessThan40' = u.l40
  /\ lessThan60' = u.l60
  /\ result' = [op |-> "updateUsage", err |-> u.err, val |-> 0,
                arr |-> -1, a1 |-> r, a2 |-> counter]
  /\ UNCHANGED <<heap, arrays, scalars, held, appended, hostValue, gcLog>>

\* heap.gc.updateUsage(heap.gc.byKinds.young, region) on a held region
DoUpdateUsage(r, declared) ==
  DoUpdateUsageOf(r, heap.ctr[r + 1],
                  updateUsage(lessThan40, lessThan60, r, heap.ctr[r + 1], declared))

\* new Mono(region, kind, beginFrom): the constructor throws for a kind
\* sizeFromKind does not know
MonoOfKind(mem, r, kind, beginFrom) ==
  IF sizeFromKind(kind) = 0 THEN [mem |-> mem, err |-> "WRONG_KIND", val |-> 0]
  ELSE [mem |-> mem, err |-> "NONE", val |-> Mono(r, kind, beginFrom)]

\* new Wrapped(mono).dispatch() on the mono that was built or fetched (f)
dispatchOf(f) ==
  IF f.err # "NONE" THEN [err |-> f.err, typed |-> FALSE] ELSE dispatch(f.val)

\* what the client keeps of dispatch(): whether it threw, and whether the
\* wrapper is a typed one; a1 is the kind byte of the mono
DoDispatchOf(kind, address, mem, d) ==
  /\ heap' = [heap EXCEPT !.mem = mem]
  /\ result' = [op |-> "dispatch", err |-> d.err,
                val |-> IF d.err = "NONE" /\ d.typed THEN 1 ELSE 0,
                arr |-> -1, a1 |-> kind, a2 |-> address]
  /\ UNCHANGED <<arrays, scalars, held, appended, hostValue, gcVars>>

DoDispatchFetched(address, f) == DoDispatchOf(heap.mem[address], address, f.mem, dispatchOf(f))

\* new Wrapped(heap.fetchMono(address)).dispatch()
DoDispatchAt(address) == DoDispatchFetched(address, fetchMono(heap.mem, address))

\* new Wrapped(new Mono(region, kind, 5)).dispatch() on a descriptor of the kind
DoDispatchKind(r, kind) ==
  DoDispatchOf(kind, r * REGION_SIZE + REGION_HEAD_SIZE, heap.mem,
               dispatchOf(MonoOfKind(heap.mem, r, kind, REGION_HEAD_SIZE)))

\* heap.gc.byKinds.young.lessThan40[region.beginFrom] = region
DoFile40(r) ==
  /\ lessThan40' = lessThan40 \cup {r}
  /\ result' = Result("file", Ok(heap, 40), -1, r, 0)
  /\ UNCHANGED <<heap, arrays, scalars, held, appended, hostValue, lessThan60, gcLog>>

\* heap.gc.byKinds.young.lessThan60[region.beginFrom] = region
DoFile60(r) ==
  /\ lessThan60' = lessThan60 \cup {r}
  /\ result' = Result("file", Ok(heap, 60), -1, r, 0)
  /\ UNCHANGED <<heap, arrays, scalars, held, appended, hostValue, lessThan40, gcLog>>

\* the heap and the log once minorGC returned g
DoMinorGCOf(g) ==
  /\ heap' = g.h
  /\ result' = Result("minorGC", [err |-> g.err, val |-> Len(g.val)], -1, 0, 0)
  /\ gcLog' = Append(gcLog, g.val)
  /\ UNCHANGED <<arrays, scalars, held, appended, hostValue, lessThan40, lessThan60>>

\* heap.gc.minorGC(); gcLog keeps, for each cycle, the pairs it merged
DoMinorGC == DoMinorGCOf(minorGC(heap, lessThan40, lessThan60))

\* wrapper.read() on a scalar wrapper
DoRead(e) ==
  /\ result' = Result("read", DispatchRead(heap.mem, MonoAt(e, heap.mem[e])), e, 0, 0)
  /\ UNCHANGED <<heap, arrays, scalars, held, appended, hostValue, gcVars>>

\* array.length() of a held array, from the heap bytes
length(mem, a) == readLength(mem, ArrayAt(a)).val

\* the scalars of one kind the client holds
OfKind(kind) == {e \in scalars : heap.mem[e] = kind}

\* the calls that return [newArray, element]: the client keeps both, the
\* element as the address of its mono and the kind of wrapper it got
PairCall(op, r, a, idx) ==
  /\ heap' = r.h
  /\ result' = IF r.err = "NONE"
               THEN [op |-> op, err |-> r.err, val |-> r.val, arr |-> a, a1 |-> idx,
                     a2 |-> r.elem, typed |-> r.typed]
               ELSE [op |-> op, err |-> r.err, val |-> 0, arr |-> a, a1 |-> idx,
                     a2 |-> 0, typed |-> FALSE]
  /\ arrays' = IF r.err = "NONE" THEN arrays \cup {r.val} ELSE arrays
  /\ UNCHANGED <<scalars, held, appended, hostValue, gcVars>>

DoPop(a) == PairCall("pop", ArrayPop(heap, ArrayAt(a)), a, length(heap.mem, a) - 1)

DoShift(a) == PairCall("shift", ArrayShift(heap, ArrayAt(a)), a, 0)

DoRemove(a, idx) == PairCall("remove", ArrayRemove(heap, ArrayAt(a), idx), a, idx)

\* what the client keeps of a fetch by address (f): the kind of the mono, or
\* the index of the region
DoFetchOf(op, address, f, val) ==
  /\ heap' = [heap EXCEPT !.mem = f.mem]
  /\ result' = [op |-> op, err |-> f.err, val |-> IF f.err = "NONE" THEN val ELSE 0,
                arr |-> -1, a1 |-> address, a2 |-> 0]
  /\ UNCHANGED <<arrays, scalars, held, appended, hostValue, gcVars>>

\* the kind of the Mono that fetchMono returned (f)
DoFetchedMono(address, f) ==
  DoFetchOf("fetchMono", address, f, IF f.err = "NONE" THEN f.val.kind ELSE 0)

\* heap.fetchMono(address)
DoFetchMono(address) == DoFetchedMono(address, fetchMono(heap.mem, address))

\* the index of the Region that fetchRegion returned (f)
DoFetchedRegion(address, f) == DoFetchOf("fetchRegion", address, f, f.val)

\* heap.fetchRegion(address)
DoFetchRegion(address) == DoFetchedRegion(address, fetchRegion(heap.mem, address))

\* the client of the array API: it allocates its scalars, then its arrays
Next ==
  \/ \E v \in {-1025} : Cardinality(OfKind(MONO_INT32)) < MaxPerKind /\ AllocInt32(v)
  \/ \E v \in {6} : Cardinality(OfKind(MONO_FLOAT64)) < MaxPerKind /\ AllocFloat64(v)
  \/ /\ Cardinality(DOMAIN appended) < MaxFresh /\ Cardinality(scalars) = 2 * MaxPerKind
     /\ AllocArray
  \/ \E a \in arrays, e \in scalars : length(heap.mem, a) < MaxLen /\ DoAppend(a, e)
  \/ \E a \in arrays, i \in -1..(MaxLen + 1) : DoIndex(a, i)
  \/ \E a \in arrays : Cardinality(arrays) < MaxArrays /\ DoClone(a)
  \/ \E a \in arrays, from \in -1..MaxLen, to \in -1..MaxLen :
        Cardinality(arrays) < MaxArrays /\ DoSlice(a, from, to)
  \/ \E a \in arrays, b \in arrays : Cardinality(arrays) < MaxArrays /\ DoConcat(a, b)
  \/ \E a \in arrays, e \in scalars : Cardinality(arrays) < MaxArrays /\ DoPush(a, e)

Spec == Init /\ [][Next]_vars

\* ---- the client that grows one array over chunk boundaries ----
MaxChain == 17
MaxSwitch == 1

\* how often the client changed the scalar it appends
Switches(seq) == Cardinality({i \in 1..(Len(seq) - 1) : seq[i] # seq[i + 1]})

\* the indices the client asks for: both ends, and one before and past them
IndexProbes(a) == {-1, 0, length(heap.mem, a) - 1, length(heap.mem, a)}

NextChain ==
  \/ \E v \in {-1025} : OfKind(MONO_INT32) = {} /\ AllocInt32(v)
  \/ \E v \in {6} : OfKind(MONO_FLOAT64) = {} /\ AllocFloat64(v)
  \/ arrays = {} /\ Cardinality(scalars) = 2 /\ AllocArray
  \/ \E a \in arrays, e \in scalars :
        /\ Len(appended[a]) < MaxChain
        /\ Switches(Append(appended[a], e)) <= MaxSwitch
        /\ DoAppend(a, e)
  \/ \E a \in arrays : \E i \in IndexProbes(a) : DoIndex(a, i)

SpecChain == Init /\ [][NextChain]_vars

\* ---- the client of the allocator: scalars, raw monos, a region of its own ----
MaxMade == 3

Made == Cardinality(scalars) + Cardinality(arrays)

ValuesOf(e) == IF heap.mem[e] = MONO_INT32 THEN IntValues ELSE FloatValues

NextAlloc ==
  \/ \E v \in IntValues : Made < MaxMade /\ OfKind(MONO_INT32) = {} /\ AllocInt32(v)
  \/ \E v \in FloatValues : Made < MaxMade /\ OfKind(MONO_FLOAT64) = {} /\ AllocFloat64(v)
  \/ Made < MaxMade /\ AllocArray
  \/ held = {} /\ DoCreateRegion
  \/ \E r \in held, kind \in KnownKinds :
        Made < MaxMade /\ Len(heap.made[r + 1]) < MaxMonos /\ DoCreateMono(r, kind)
  \/ \E e \in scalars : \E w \in ValuesOf(e) : DoWrite(e, w)
  \/ \E e \in scalars : DoRead(e)

SpecAlloc == Init /\ [][NextAlloc]_vars

\* ---- the client of the region accessors: one region, as in heap.js test() ----
\* offsets around both ends of a region
CodecProbes ==
  {-1, 0, REGION_HEAD_SIZE, REGION_SIZE - 8, REGION_SIZE - 7, REGION_SIZE - 4,
   REGION_SIZE - 3, REGION_SIZE - 1, REGION_SIZE, REGION_SIZE + 1}

\* the offsets the client writes at: the last eight bytes of the region and
\* the offsets on either side of it
WriteProbes ==
  {-1, REGION_SIZE - 8, REGION_SIZE - 4, REGION_SIZE - 3, REGION_SIZE - 1,
   REGION_SIZE, REGION_SIZE + 1}

\* the values the client writes; the uint32 / address is 0x01020304
ProbeUint32 == 16909060
ProbeUint8 == 43
ProbeInt32 == 1025
\* 2.0, in quarters
ProbeFloat64 == 8

NextCodec ==
  \/ held = {} /\ DoCreateRegion
  \/ \E r \in held, at \in CodecProbes : DoReadUint8(r, at)
  \/ \E r \in held, at \in CodecProbes : DoReadUint32(r, at)
  \/ \E r \in held, at \in CodecProbes : DoReadAddress(r, at)
  \/ \E r \in held, at \in CodecProbes : DoReadInt32(r, at)
  \/ \E r \in held, at \in CodecProbes : DoReadFloat64(r, at)
  \/ \E r \in held, at \in WriteProbes : DoWriteUint8(r, at, ProbeUint8)
  \/ \E r \in held, at \in WriteProbes : DoWriteUint32(r, at, ProbeUint32)
  \/ \E r \in held, at \in WriteProbes : DoWriteAddress(r, at, ProbeUint32)
  \/ \E r \in held, at \in WriteProbes : DoWriteInt32(r, at, ProbeInt32)
  \/ \E r \in held, at \in WriteProbes : DoWriteFloat64(r, at, ProbeFloat64)

SpecCodec == Init /\ [][NextCodec]_vars

\* ---- the client of dispatch: wrappers over created monos and descriptors ----
\* kind bytes: every defined kind, and bytes on either side of each
KindBytes == 0..33 \cup {255}

NextDispatch ==
  \/ held = {} /\ DoCreateRegion
  \/ \E r \in held, kind \in KnownKinds :
        Len(heap.made[r + 1]) < MaxMonos /\ DoCreateMono(r, kind)
  \/ \E address \in scalars \cup arrays : DoDispatchAt(address)
  \/ \E r \in held, kind \in KindBytes : DoDispatchKind(r, kind)

SpecDispatch == Init /\ [][NextDispatch]_vars

\* ---- the client of the collector: regions of its own, as in testMinorGC ----
MaxHeld == 2
MaxGCs == 1

CreatedIn(r) == Len(heap.made[r + 1])

\* the client writes each scalar right after it creates it, as testMinorGC does
Unwritten == {e \in scalars : hostValue[e] = 0}

NextGC ==
  \/ Cardinality(held) < MaxHeld /\ DoCreateRegion
  \/ \E r \in held, kind \in {MONO_INT32, MONO_FLOAT64, MONO_ARRAY_S8} :
        /\ Cardinality(held) = MaxHeld /\ Unwritten = {}
        /\ CreatedIn(r) < MaxMonos
        /\ kind = MONO_ARRAY_S8 => arrays = {}
        /\ DoCreateMono(r, kind)
  \/ \E e \in Unwritten, w \in {7} : DoWrite(e, w)
  \/ \E a \in arrays, e \in scalars :
        Unwritten = {} /\ length(heap.mem, a) < MaxLen /\ DoAppend(a, e)
  \/ \E r \in held : Unwritten = {} /\ r \notin lessThan40 \cup lessThan60 /\ DoFile40(r)
  \/ \E r \in held : Unwritten = {} /\ r \notin lessThan40 \cup lessThan60 /\ DoFile60(r)
  \/ Unwritten = {} /\ Len(gcLog) < MaxGCs /\ DoMinorGC

SpecGC == Init /\ [][NextGC]_vars

\* ---- the client of updateUsage: regions filled to different levels ----
MaxUsageMonos == 4

NextUsage ==
  \/ Cardinality(held) < MaxHeld /\ DoCreateRegion
  \/ \E r \in held, kind \in {MONO_FLOAT64, MONO_ARRAY_S8} :
        Len(heap.made[r + 1]) < MaxUsageMonos /\ DoCreateMono(r, kind)
  \/ \E r \in held, declared \in BOOLEAN : DoUpdateUsage(r, declared)

SpecUsage == Init /\ [][NextUsage]_vars

\* ---- the client of traverse: created regions and a merged one ----
NextTraverse ==
  \/ Cardinality(held) < MaxHeld /\ DoCreateRegion
  \/ \E r \in held, kind \in {MONO_INT32, MONO_FLOAT64, MONO_ARRAY_S8, MONO_CHUNK_S8} :
        gcLog = <<>> /\ CreatedIn(r) < MaxMonos /\ DoCreateMono(r, kind)
  \/ \E r \in held : lessThan40 = {} /\ r \notin lessThan60 /\ DoFile40(r)
  \/ \E r \in held : lessThan60 = {} /\ r \notin lessThan40 /\ DoFile60(r)
  \/ Len(gcLog) < MaxGCs /\ DoMinorGC
  \/ \E r \in 0..(heap.cc - 1) : DoTraverse(r)

SpecTraverse == Init /\ [][NextTraverse]_vars

\* ---- the client of ArrayPop / ArrayShift / ArrayRemove ----
MaxRemove == 3

NextRemove ==
  \/ \E v \in {-1025} : OfKind(MONO_INT32) = {} /\ AllocInt32(v)
  \/ \E v \in {6} : OfKind(MONO_FLOAT64) = {} /\ AllocFloat64(v)
  \/ arrays = {} /\ Cardinality(scalars) = 2 /\ AllocArray
  \/ \E a \in DOMAIN appended, e \in scalars :
        length(heap.mem, a) < MaxRemove /\ DoAppend(a, e)
  \/ \E a \in arrays : Cardinality(arrays) < MaxArrays /\ DoPop(a)
  \/ \E a \in arrays : Cardinality(arrays) < MaxArrays /\ DoShift(a)
  \/ \E a \in arrays, idx \in -1..MaxRemove :
        Cardinality(arrays) < MaxArrays /\ DoRemove(a, idx)

SpecRemove == Init /\ [][NextRemove]_vars

\* ---- the client that uses the heap up: regions, allocations, GC cycles ----
MaxInts == 1

\* the regions the allocator holds
AllocatorRegions == {heap.regs[i] : i \in 1..Len(heap.regs)}

\* the addresses the client fetches: the first mono of the first buffer, of
\* the last two, and of the region past the last buffer
FetchProbes ==
  {r * REGION_SIZE + REGION_HEAD_SIZE :
     r \in {0, NUMBER_REGIONS - 1, NUMBER_REGIONS, NUMBER_REGIONS + 1}}

NextRegions ==
  \/ DoCreateRegion
  \/ Cardinality(arrays) < MaxHeld /\ AllocArray
  \/ \E v \in {7} : Cardinality(scalars) < MaxInts /\ AllocInt32(v)
  \/ \E r \in held \cup AllocatorRegions :
        lessThan40 = {} /\ r \notin lessThan60 /\ DoFile40(r)
  \/ \E r \in held \cup AllocatorRegions :
        lessThan60 = {} /\ r \notin lessThan40 /\ DoFile60(r)
  \/ Len(gcLog) < MaxGCs /\ DoMinorGC
  \/ \E address \in FetchProbes : DoFetchMono(address)
  \/ \E address \in FetchProbes : DoFetchRegion(address)

SpecRegions == Init /\ [][NextRegions]_vars


\* ---- the client of a cycle with two pairs: the allocator's region and three
\* regions of its own, an array that grows a second chunk ----
MaxSources == 3
MaxPairLen == 9

NextPairs ==
  \/ Cardinality(held) < MaxSources /\ DoCreateRegion
  \/ \E r \in held, kind \in {MONO_INT32, MONO_ARRAY_S8} :
        /\ Cardinality(held) = MaxSources
        /\ kind = MONO_ARRAY_S8 => arrays = {}
        /\ kind = MONO_INT32 => scalars = {}
        /\ DoCreateMono(r, kind)
  \/ \E e \in Unwritten, w \in {7} : DoWrite(e, w)
  \/ \E a \in arrays, e \in scalars :
        Unwritten = {} /\ length(heap.mem, a) < MaxPairLen /\ DoAppend(a, e)
  \/ \E r \in held \cup AllocatorRegions :
        Unwritten = {} /\ r \notin lessThan40 \cup lessThan60 /\ DoFile40(r)
  \/ \E r \in held \cup AllocatorRegions :
        Unwritten = {} /\ r \notin lessThan40 \cup lessThan60 /\ DoFile60(r)
  \/ Unwritten = {} /\ Len(gcLog) < MaxGCs /\ DoMinorGC

SpecPairs == Init /\ [][NextPairs]_vars

\* ---- what a minor GC cycle did, read off the step ----
\* the header offset of the i-th mono createMono made in a region
RECURSIVE OffsetOf(_, _)
OffsetOf(kinds, i) ==
  IF i = 1 THEN REGION_HEAD_SIZE
  ELSE OffsetOf(kinds, i - 1) + sizeFromKind(kinds[i - 1])

\* the monos createMono made in region r, head to tail
MonosIn(h, r) ==
  {Mono(r, h.made[r + 1][i], OffsetOf(h.made[r + 1], i)) : i \in 1..Len(h.made[r + 1])}

ViewOf(mono) == IF mono.kind = MONO_ARRAY_S8 THEN WrappedArray(mono) ELSE WrappedChunk(mono)

\* a step of minorGC that merged the pairs LastPairs
LastPairs == gcLog'[Len(gcLog')]
GCStep == gcLog' # gcLog /\ Len(LastPairs) > 0
GCDone == GCStep /\ result'.err = "NONE"

Sources(pairs) == {pairs[i].a : i \in 1..Len(pairs)} \cup {pairs[i].b : i \in 1..Len(pairs)}

\* the address, after the pairs were merged, of the copy of the mono at p
CopyOf(pairs, p) ==
  LET r == p \div REGION_SIZE
      o == p % REGION_SIZE
  IN IF \E i \in 1..Len(pairs) : pairs[i].a = r
     THEN LET pr == pairs[CHOOSE i \in 1..Len(pairs) : pairs[i].a = r]
          IN pr.new * REGION_SIZE + o
     ELSE IF \E i \in 1..Len(pairs) : pairs[i].b = r
     THEN LET pr == pairs[CHOOSE i \in 1..Len(pairs) : pairs[i].b = r]
          IN pr.new * REGION_SIZE + (pr.ca - REGION_HEAD_SIZE) + o
     ELSE p

\* the pointer in slot idx of an array / chunk view
SlotOf(mem, w, idx) == readAddress(mem, w.region, addressFromIndex(w, idx)).val

UsedSlots(mem, w) == 0..(readChunkLength(mem, w).val - 1)

\* the payload bytes of a mono
Payload(mem, mono) ==
  [k \in 1..(mono.endAt - mono.beginFrom) |-> mem[heapAddress(mono) + k]]

\* what array.index(i) fetches and the element's payload agree in mem1 and mem2
SameElement(mem1, w1, mem2, w2, i) ==
  LET e1 == index(mem1, w1, i)
      e2 == index(mem2, w2, i)
  IN /\ e1.err = e2.err
     /\ e1.err = "NONE" =>
          /\ e1.val.kind = e2.val.kind
          /\ Payload(mem1, e1.val) = Payload(mem2, e2.val)

\* the merged region a pointer lies in, 0 if it lies in none
MergedRegionOf(pairs, p) ==
  IF \E i \in 1..Len(pairs) : pairs[i].new = p \div REGION_SIZE
  THEN p \div REGION_SIZE ELSE 0

\* C7 as stated: after minor GC every pointer slot of an array or chunk of a
\* merged region whose target lay in a relocated region (the lessThan40 or the
\* lessThan60 source of a pair) holds the address of the header byte of its
\* target's copy and lies inside the monos of a merged region, and index(i) on
\* the copy of a relocated array reads the same element value as index(i) on
\* the array before the cycle.
C7_PointersFollowTargets ==
  [][GCDone =>
      \A s \in Sources(LastPairs) : \A m \in MonosIn(heap, s) :
        m.kind \in {MONO_ARRAY_S8, MONO_CHUNK_S8} =>
          LET c == CopyOf(LastPairs, heapAddress(m))
              old == ViewOf(m)
              new == ViewOf(MonoAt(c, m.kind))
          IN /\ \A idx \in UsedSlots(heap.mem, old) :
                  SlotOf(heap.mem, old, idx) \div REGION_SIZE \in Sources(LastPairs) =>
                    LET p == SlotOf(heap'.mem, new, idx)
                        r == MergedRegionOf(LastPairs, p)
                    IN /\ p = CopyOf(LastPairs, SlotOf(heap.mem, old, idx))
                       /\ r # 0
                       /\ p % REGION_SIZE >= REGION_HEAD_SIZE
                       /\ p % REGION_SIZE < heap'.ctr[r + 1]
             /\ m.kind = MONO_ARRAY_S8 =>
                  \A i \in 0..(readLength(heap.mem, old).val - 1) :
                    SameElement(heap'.mem, new, heap.mem, old, i)]_vars

\* the kinds Region.prototype.traverse visits in region r, head to tail
RECURSIVE TraverseKinds(_, _, _, _)
TraverseKinds(mem, r, beginFrom, counter) ==
  IF ~(beginFrom < counter) THEN <<>>
  ELSE LET kind == readUint8(mem, r, beginFrom).val
       IN IF kind \notin KnownKinds THEN <<>>
          ELSE <<kind>> \o TraverseKinds(mem, r, beginFrom + sizeFromKind(kind), counter)

\* the bytes of source region s that are used pointer slots with a pointee in
\* a relocated region: the bytes the rewrite pass writes in the copy
RewrittenBytes(mem, h, pairs, s) ==
  UNION {UNION {{addressFromIndex(ViewOf(m), idx) + k : k \in 0..3} :
                 idx \in {j \in UsedSlots(mem, ViewOf(m)) :
                            SlotOf(mem, ViewOf(m), j) \div REGION_SIZE \in Sources(pairs)}} :
         m \in {x \in MonosIn(h, s) : x.kind \in {MONO_ARRAY_S8, MONO_CHUNK_S8}}}

\* the merged region of pair pr holds the bytes of both payloads, but for the
\* source offsets in skipA / skipB
BytesCopied(pr, skipA, skipB) ==
  /\ \A k \in (REGION_HEAD_SIZE..(pr.ca - 1)) \ skipA :
       heap'.mem[pr.new * REGION_SIZE + k] = heap.mem[pr.a * REGION_SIZE + k]
  /\ \A k \in (REGION_HEAD_SIZE..(pr.cb - 1)) \ skipB :
       heap'.mem[pr.new * REGION_SIZE + (pr.ca - REGION_HEAD_SIZE) + k]
         = heap.mem[pr.b * REGION_SIZE + k]

\* counter, traversal order and scalar payloads of the merged region of pr
MergedLayout(pr) ==
  /\ heap'.ctr[pr.new + 1]
       = REGION_HEAD_SIZE + (pr.ca - REGION_HEAD_SIZE) + (pr.cb - REGION_HEAD_SIZE)
  /\ readUint32(heap'.mem, pr.new, 0).val = heap'.ctr[pr.new + 1]
  /\ TraverseKinds(heap'.mem, pr.new, REGION_HEAD_SIZE, heap'.ctr[pr.new + 1])
       = heap.made[pr.a + 1] \o heap.made[pr.b + 1]
  /\ \A s \in {pr.a, pr.b} : \A m \in MonosIn(heap, s) :
       m.kind \in {MONO_INT32, MONO_FLOAT64} =>
         Payload(heap'.mem, MonoAt(CopyOf(<<pr>>, heapAddress(m)), m.kind))
           = Payload(heap.mem, m)

\* C8 as stated: after minor GC the merged region of each pair holds the
\* lessThan40 source's bytes [5, counter_a) at [5, 5 + payload_a) and the
\* lessThan60 source's bytes [5, counter_b) right after them, byte for byte,
\* its counter is 5 + payload_a + payload_b and persisted, traversing it visits
\* the monos of the first source then of the second with the same kinds, and
\* every INT32 / FLOAT64 payload equals its payload before the cycle.
C8_MergedVerbatim ==
  [][GCDone =>
      \A i \in 1..Len(LastPairs) :
        BytesCopied(LastPairs[i], {}, {}) /\ MergedLayout(LastPairs[i])]_vars

\* C8 amended: the same, with the byte equality holding for every byte but the
\* used pointer slots of arrays and chunks whose pointee lies in a relocated
\* region, which the rewrite pass of the same cycle overwrites.
C8_MergedButRewrittenSlots ==
  [][GCDone =>
      \A i \in 1..Len(LastPairs) :
        /\ BytesCopied(LastPairs[i],
             {a % REGION_SIZE : a \in RewrittenBytes(heap.mem, heap, LastPairs, LastPairs[i].a)},
             {a % REGION_SIZE : a \in RewrittenBytes(heap.mem, heap, LastPairs, LastPairs[i].b)})
        /\ MergedLayout(LastPairs[i])]_vars

\* a cycle merged a pair whose sources hold a written scalar and an array with
\* a pointer into a relocated region
C8_Witness ==
  /\ gcLog # <<>> /\ Len(gcLog[1]) > 0 /\ result.op = "minorGC" /\ result.err = "NONE"
  /\ \E e \in scalars : e \div REGION_SIZE \in Sources(gcLog[1]) /\ hostValue[e] # 0
  /\ \E a \in arrays :
       /\ a \div REGION_SIZE \in Sources(gcLog[1])
       /\ \E i \in 1..Len(appended[a]) : appended[a][i] \div REGION_SIZE \in Sources(gcLog[1])
  /\ \A i \in 1..Len(gcLog[1]) : gcLog[1][i].ca > REGION_HEAD_SIZE /\ gcLog[1][i].cb > REGION_HEAD_SIZE

\* C9: after a minor GC cycle that merged pairs, fetchMono(p) still succeeds,
\* returning a mono of the same kind, for every address p that was the header
\* address of a mono in a relocated (source) region before the cycle.
C9_OldAddressesStillFetch ==
  [][GCStep =>
      \A s \in Sources(LastPairs) : \A m \in MonosIn(heap, s) :
        LET before == fetchMono(heap.mem, heapAddress(m))
            after == fetchMono(heap'.mem, heapAddress(m))
        IN /\ before.err = "NONE" /\ before.val.kind = m.kind
           /\ after.err = "NONE" /\ after.val.kind = m.kind]_vars

\* a cycle merged two sources that both hold monos, one of them an array
C9_Witness ==
  /\ gcLog # <<>> /\ Len(gcLog[1]) > 0 /\ result.op = "minorGC"
  /\ \A s \in Sources(gcLog[1]) : Len(heap.made[s + 1]) > 0
  /\ \E a \in arrays : a \div REGION_SIZE \in Sources(gcLog[1]) /\ Len(appended[a]) > 0

\* ---- allocation and scalars ----
RECURSIVE SumSizes(_)
SumSizes(kinds) ==
  IF kinds = <<>> THEN 0 ELSE sizeFromKind(Head(kinds)) + SumSizes(Tail(kinds))

\* C1: every region handed out by createRegion has counter = 5 + the sum of
\* the sizes of the monos created in it; those monos lie head to tail in
\* [5, counter) with no gap (each header byte holds its kind, each mono begins
\* where the one before ends, the last ends at counter - 1, and a traversal
\* visits exactly them in creation order); and the counter persisted in
\* header bytes [0, 4) equals the descriptor's counter.
C1_RegionCounter ==
  \A r \in 0..(heap.cc - 1) :
    LET kinds == heap.made[r + 1]
        counter == heap.ctr[r + 1]
    IN /\ counter = REGION_HEAD_SIZE + SumSizes(kinds)
       /\ \A i \in 1..Len(kinds) :
            LET m == Mono(r, kinds[i], OffsetOf(kinds, i))
            IN /\ heap.mem[heapAddress(m)] = kinds[i]
               /\ m.endAt + 1 = IF i = Len(kinds) THEN counter ELSE OffsetOf(kinds, i + 1)
       /\ TraverseKinds(heap.mem, r, REGION_HEAD_SIZE, counter) = kinds
       /\ readUint32(heap.mem, r, 0).val = counter

\* the allocator rolled over to a second region, and the client's own region
\* holds two monos
C1_Witness ==
  /\ Len(heap.regs) >= 2
  /\ \E r \in 0..(heap.cc - 1) : Len(heap.made[r + 1]) >= 2
  /\ \E r \in held : Len(heap.made[r + 1]) >= 2
  /\ result.op = "createMono"

\* C6: for INT32 and FLOAT64 and every host value of IntValues / FloatValues,
\* the wrapper allocator.K(v) returned reads v, and after write(w) it reads w:
\* at any time a scalar wrapper reads the value last given to it.
C6_ScalarRoundTrip ==
  \A e \in scalars :
    LET r == DispatchRead(heap.mem, MonoAt(e, heap.mem[e]))
    IN heap.mem[e] \in {MONO_INT32, MONO_FLOAT64} /\ r.err = "NONE" /\ r.val = hostValue[e]

\* a negative int32 and a negative float64 were written over other values
C6_Witness ==
  /\ result.op = "write" /\ result.err = "NONE"
  /\ \E e \in OfKind(MONO_INT32) : hostValue[e] = -2147483647 - 1
  /\ \E e \in OfKind(MONO_FLOAT64) : hostValue[e] = -9

\* ---- the array API ----
\* the element addresses of the array at a, as index(0), index(1), ... fetch them
Elems(mem, a) ==
  [i \in 1..length(mem, a) |->
     LET e == index(mem, ArrayAt(a), i - 1)
     IN IF e.err = "NONE" THEN heapAddress(e.val) ELSE -1]

\* the call just made returned the array result'.val, which this call allocated
ReturnedNewArray(op) ==
  /\ result'.op = op /\ result'.err = "NONE"
  /\ result'.val \notin arrays
  /\ heap.mem[result'.val] = 0
  /\ heap'.mem[result'.val] = MONO_ARRAY_S8

\* C4: clone(A), slice(A, from, to) with 0 <= from <= to < length(A) and
\* concat(A, B), B = A included, return a newly allocated array mono whose
\* elements are A's, A[from..to] (to - from + 1 of them) and A's followed by
\* B's: the same element addresses in the same order.
C4_DerivedArrays ==
  [][/\ ReturnedNewArray("clone") =>
          Elems(heap'.mem, result'.val) = Elems(heap.mem, result'.arr)
     /\ ReturnedNewArray("slice") =>
          /\ 0 <= result'.a1 /\ result'.a1 <= result'.a2
          /\ result'.a2 < length(heap.mem, result'.arr)
          /\ length(heap'.mem, result'.val) = result'.a2 - result'.a1 + 1
          /\ Elems(heap'.mem, result'.val)
               = SubSeq(Elems(heap.mem, result'.arr), result'.a1 + 1, result'.a2 + 1)
     /\ ReturnedNewArray("concat") =>
          /\ length(heap'.mem, result'.val)
               = length(heap.mem, result'.arr) + length(heap.mem, result'.a1)
          /\ Elems(heap'.mem, result'.val)
               = Elems(heap.mem, result'.arr) \o Elems(heap.mem, result'.a1)
     /\ result'.op \in {"clone", "slice", "concat"} /\ result'.err = "NONE" =>
          ReturnedNewArray(result'.op)]_vars

\* a concat of a two-element array with itself returned
C4_Witness ==
  /\ result.op = "concat" /\ result.err = "NONE" /\ result.arr = result.a1
  /\ length(heap.mem, result.arr) = 2
  /\ Elems(heap.mem, result.arr)[1] # Elems(heap.mem, result.arr)[2]
  /\ length(heap.mem, result.val) = 4

\* the array an append or a push appended to: the receiver of append, the
\* clone that push returns
AppendedTo == IF result'.op = "push" THEN result'.val ELSE result'.arr

\* C5: an append to an array B made by clone, slice, concat or push (the
\* append inside push included) leaves the length and every index(i) of every
\* other array, the array B came from among them, unchanged.
C5_AppendLeavesOthers ==
  [][result'.op \in {"append", "push"} /\ result'.err = "NONE" =>
       \A a \in arrays \ {AppendedTo} :
         /\ length(heap'.mem, a) = length(heap.mem, a)
         /\ Elems(heap'.mem, a) = Elems(heap.mem, a)]_vars

\* an append to a derived array succeeded while the array made by
\* allocator.array() holds elements
C5_Witness ==
  /\ result.op = "append" /\ result.err = "NONE"
  /\ result.arr \in arrays \ DOMAIN appended
  /\ \E a \in DOMAIN appended : Len(appended[a]) >= 1 /\ length(heap.mem, a) = Len(appended[a])

\* C10: slice(A, from, to) with from < 0, from >= length(A), to < from or
\* to >= length(A), and index(A, i) with i < 0 or i >= length(A), throw
\* OUT_OF_RANGE and leave the heap as it was: bytes, counters, regions, monos.
C10_InvalidBounds ==
  \A a \in arrays :
    LET n == length(heap.mem, a)
    IN /\ \A from \in -1..(MaxLen + 1), to \in -1..(MaxLen + 1) :
            from < 0 \/ from >= n \/ to < from \/ to >= n =>
              cloneFromTo(heap, ArrayAt(a), from, to) = Throw(heap, "OUT_OF_RANGE")
       /\ \A i \in -1..(MaxLen + 1) :
            i < 0 \/ i >= n =>
              index(heap.mem, ArrayAt(a), i)
                = [mem |-> heap.mem, err |-> "OUT_OF_RANGE", val |-> 0]

\* a slice of a non-empty array threw OUT_OF_RANGE
C10_Witness ==
  /\ result.op = "slice" /\ result.err = "OUT_OF_RANGE"
  /\ \E a \in arrays : length(heap.mem, a) >= 1

\* ---- one array grown by append ----
\* C2: after k successful appends to an array made by allocator.array(),
\* array.length() is k, for every k up to MaxChain: over the chunk boundaries
\* at 8 and 16 and over the appends that make the allocator take a new region.
C2_LengthLaw ==
  \A a \in DOMAIN appended :
    LET n == readLength(heap.mem, ArrayAt(a))
    IN n.err = "NONE" /\ n.val = Len(appended[a])

\* the array crossed two chunk boundaries and the allocator rolled over twice
C2_Witness ==
  /\ result.op = "append" /\ result.err = "NONE"
  /\ \E a \in DOMAIN appended : Len(appended[a]) = 17 /\ length(heap.mem, a) = 17
  /\ Len(heap.regs) >= 3

\* C3: for an array built by append and every i with 0 <= i < array.length(),
\* array.index(i) fetches the mono whose header address was the i-th address
\* appended, in whichever chunk of the chain slot i lies.
C3_ChunkIndexing ==
  \A a \in DOMAIN appended :
    \A i \in 0..(length(heap.mem, a) - 1) :
      LET e == index(heap.mem, ArrayAt(a), i)
      IN e.err = "NONE" /\ heapAddress(e.val) = appended[a][i + 1]

\* an index call succeeded on an array of two chunks and more, whose element
\* 8 differs from elements 0 and 7
C3_Witness ==
  /\ result.op = "index" /\ result.err = "NONE"
  /\ \E a \in DOMAIN appended :
       /\ length(heap.mem, a) >= 10
       /\ appended[a][1] # appended[a][9]
       /\ appended[a][8] # appended[a][9]

\* ---- pop, shift, remove ----
\* the call just made was op on an array of length n >= 1 at a valid index,
\* and the heap had the regions it needed
PairCalled(ops) ==
  /\ result'.op \in ops /\ result'.err # "OOM"
  /\ 0 <= result'.a1 /\ result'.a1 < length(heap.mem, result'.arr)

\* seq without its i-th element (i from 0)
Without(seq, i) == SubSeq(seq, 1, i) \o SubSeq(seq, i + 2, Len(seq))

\* C11: ArrayPop(A) on an array of length n >= 1 returns a new array holding
\* A's first n - 1 elements in order and the element that was at index n - 1;
\* A's length and elements are unchanged.
C11_PopYields ==
  [][PairCalled({"pop"}) =>
       /\ result'.err = "NONE"
       /\ result'.val \notin arrays /\ heap.mem[result'.val] = 0
       /\ Elems(heap'.mem, result'.val)
            = SubSeq(Elems(heap.mem, result'.arr), 1, length(heap.mem, result'.arr) - 1)
       /\ result'.a2 = Elems(heap.mem, result'.arr)[length(heap.mem, result'.arr)]
       /\ Elems(heap'.mem, result'.arr) = Elems(heap.mem, result'.arr)]_vars

\* C12: ArrayRemove(A, i), ArrayShift(A) for i = 0, on an array of length
\* n >= 1 with 0 <= i < n returns as first component a new array of length
\* n - 1 holding A's elements except the i-th in their order; A is unchanged.
C12_RemoveYields ==
  [][PairCalled({"remove", "shift"}) =>
       /\ result'.err = "NONE"
       /\ result'.val \notin arrays /\ heap.mem[result'.val] = 0
       /\ length(heap'.mem, result'.val) = length(heap.mem, result'.arr) - 1
       /\ Elems(heap'.mem, result'.val)
            = Without(Elems(heap.mem, result'.arr), result'.a1)
       /\ Elems(heap'.mem, result'.arr) = Elems(heap.mem, result'.arr)]_vars

\* C13: the second component ArrayRemove(A, i) returns is the removed element
\* as a typed wrapper: it is the wrapper of the mono A.index(i) fetches, and
\* its read() equals A.index(i).dispatch().read().
C13_RemovedIsTyped ==
  [][result'.op = "remove" /\ result'.err = "NONE" =>
       /\ result'.a2 = Elems(heap.mem, result'.arr)[result'.a1 + 1]
       /\ result'.typed
       /\ WrapperRead(heap'.mem, result'.a2, result'.typed)
            = DispatchRead(heap.mem, MonoAt(result'.a2, heap.mem[result'.a2]))]_vars

\* ---- the region budget ----
\* C14: createRegion fails when content_counter = NUMBER_REGIONS, so that
\* over any sequence of calls (constructor, allocator roll-over, GC merges,
\* direct use) at most NUMBER_REGIONS regions are handed out.
C14_AtMostNumberRegions ==
  /\ heap.cc <= NUMBER_REGIONS
  /\ heap.cc = NUMBER_REGIONS => createRegion(heap).err = "OOM"

\* C15: when allocate cannot fit the mono in the current region and the heap
\* has no fresh region, the collector runs before the allocation fails: an
\* allocation that reports OOM made a GC cycle first.
C15_GCBeforeOOM ==
  [][result'.op \in {"int32", "float64", "array"} /\ result'.err = "OOM"
       => gcLog' # gcLog]_vars

\* the regions that GC cycles relocated so far
Relocated(log) == UNION {Sources(log[i]) : i \in 1..Len(log)}

\* C16: after a minor GC cycle completes the allocator's region list holds
\* the merged regions and none of the relocated source regions, and no later
\* allocation places a mono in a relocated region.
C16_AllocatorRefreshed ==
  [][/\ GCDone =>
          \A i \in 1..Len(LastPairs) :
            /\ \E k \in 1..Len(heap'.regs) : heap'.regs[k] = LastPairs[i].new
            /\ \A k \in 1..Len(heap'.regs) :
                 heap'.regs[k] \notin {LastPairs[i].a, LastPairs[i].b}
     /\ result'.op \in {"int32", "float64", "array"} /\ result'.err = "NONE" =>
          result'.val \div REGION_SIZE \notin Relocated(gcLog)]_vars

\* C17: fetchMono(addr) and fetchRegion(addr) fail with OUT_OF_REGION_RANGE
\* for every address whose region index addr \div REGION_SIZE is greater than
\* or equal to NUMBER_REGIONS.
C17_RegionIndexChecked ==
  [][result'.op \in {"fetchMono", "fetchRegion"}
       /\ result'.a1 \div REGION_SIZE >= NUMBER_REGIONS
       => result'.err = "OUT_OF_REGION_RANGE"]_vars

\* a step in which allocate or createMono returned a new mono
AllocStep == result'.op \in {"int32", "float64", "array"} /\ result'.err = "NONE"
CreateStep == result'.op = "createMono" /\ result'.val # -1

\* the mono at the returned address lies inside its region
InsideRegion(address, kind) ==
  /\ address % REGION_SIZE >= REGION_HEAD_SIZE
  /\ (address % REGION_SIZE) + sizeFromKind(kind) <= REGION_SIZE

\* C18: every mono that createMono or allocate returns lies inside one region
\* (its offset is at least 5, its offset plus its size at most REGION_SIZE);
\* allocate places the mono in the last region of the allocator's list, and
\* when the region that was last cannot fit the mono, a fresh region is
\* appended to the list and the mono is its first mono.
C18_MonoInsideRegion ==
  [][/\ CreateStep => InsideRegion(result'.val, result'.a1)
     /\ AllocStep =>
          LET kind == heap'.mem[result'.val]
              last == heap.regs[Len(heap.regs)]
          IN /\ InsideRegion(result'.val, kind)
             /\ result'.val \div REGION_SIZE = heap'.regs[Len(heap'.regs)]
             /\ IF heap.ctr[last + 1] + sizeFromKind(kind) > REGION_SIZE
                THEN /\ heap'.regs = Append(heap.regs, heap.cc)
                     /\ result'.val = heap.cc * REGION_SIZE + REGION_HEAD_SIZE
                ELSE /\ heap'.regs = heap.regs
                     /\ result'.val = last * REGION_SIZE + heap.ctr[last + 1]]_vars

\* allocate rolled over to a fresh region other than the first two
C18_Witness ==
  /\ result.op = "array" /\ result.err = "NONE"
  /\ Len(heap.regs) = 2
  /\ heap.regs[2] = 2
  /\ result.val = 2 * REGION_SIZE + REGION_HEAD_SIZE
  /\ Len(heap.made[1]) = 2

CodecOps ==
  {"readUint8", "readUint32", "readAddress", "readInt32", "readFloat64",
   "writeUint8", "writeUint32", "writeAddress", "writeInt32", "writeFloat64"}

\* C19: a region read or write of width w at an offset at with at < 0 or
\* at + w > REGION_SIZE fails with OUT_OF_RANGE and leaves the bytes and the
\* counter of the region unchanged, for each of the accessors.
C19_RangeChecked ==
  [][result'.op \in CodecOps /\ (result'.a1 < 0 \/ result'.a1 + result'.a2 > REGION_SIZE)
       => /\ result'.err = "OUT_OF_RANGE"
          /\ heap'.mem = heap.mem
          /\ heap'.ctr = heap.ctr]_vars

\* C20: multi-byte values are stored little-endian: the first four bytes of a
\* region createRegion has just returned are 5, 0, 0, 0, and a successful
\* writeUint32(at, v) leaves v mod 256 in the byte at offset at.
C20_LittleEndian ==
  [][/\ result'.op = "createRegion" /\ result'.err = "NONE"
        => [i \in 1..4 |-> heap'.mem[result'.val * REGION_SIZE + i - 1]] = <<5, 0, 0, 0>>
     /\ result'.op \in {"writeUint32", "writeAddress", "writeInt32"} /\ result'.err = "NONE"
        => heap'.mem[result'.arr * REGION_SIZE + result'.a1] = result'.val % 256]_vars

\* C21: dispatch() returns a wrapper for a mono of each of the eight defined
\* kinds and fails, with WRONG_KIND, exactly for the kind bytes outside them.
C21_DispatchKnownKinds ==
  [][result'.op = "dispatch" =>
       /\ (result'.err = "NONE") <=> (result'.a1 \in KnownKinds)
       /\ result'.err \in {"NONE", "WRONG_KIND"}]_vars

\* ---- the chunk chain of an array ----
\* the chunk views of the chain that starts at the view w, the array's embedded
\* chunk first, as far as the next pointers lead (at most fuel chunks)
RECURSIVE ChainFrom(_, _, _)
ChainFrom(mem, w, fuel) ==
  IF fuel = 0 \/ fetchNextChunk(mem, w).val = NoChunk THEN <<w>>
  ELSE <<w>> \o ChainFrom(mem, fetchNextChunk(mem, w).val, fuel - 1)

ChainOf(a) == ChainFrom(heap.mem, ArrayAt(a), MaxChain)

Min(x, y) == IF x < y THEN x ELSE y

\* C22: after k successful appends to a fresh array the chain of the array has
\* max(1, ceil(k/8)) chunks, chunk j (0-based, the embedded chunk first) has
\* length min(8, k - 8j), every chunk length is within 0..8, and the next
\* pointer of the last chunk is 0.
C22_ChunkGrowth ==
  \A a \in DOMAIN appended :
    LET k == Len(appended[a])
        chain == ChainOf(a)
    IN /\ Len(chain) = IF k = 0 THEN 1 ELSE (k + MONO_CHUNK_SIZE - 1) \div MONO_CHUNK_SIZE
       /\ \A j \in 0..(Len(chain) - 1) :
            /\ readChunkLength(heap.mem, chain[j + 1]).val
                 = Min(MONO_CHUNK_SIZE, k - MONO_CHUNK_SIZE * j)
            /\ readChunkLength(heap.mem, chain[j + 1]).val \in 0..MONO_CHUNK_SIZE
       /\ readAddress(heap.mem, chain[Len(chain)].region, chain[Len(chain)].atToNext)
            = [err |-> "NONE", val |-> 0]

\* seventeen appends: two full chunks and a third chunk with one element
C22_Witness ==
  /\ result.op = "append" /\ result.err = "NONE"
  /\ \E a \in DOMAIN appended :
       /\ Len(appended[a]) = 17
       /\ Len(ChainOf(a)) = 3
       /\ readChunkLength(heap.mem, ChainOf(a)[3]).val = 1

\* C24: after updateUsage a region is filed under lessThan40 exactly when its
\* counter is at most 40% of REGION_SIZE, under lessThan60 exactly when it is
\* above 40% and at most 60%, and under neither bucket above 60%.
C24_UsageBuckets ==
  [][result'.op = "updateUsage" =>
       LET r == result'.a1
           counter == result'.a2
       IN /\ (r \in lessThan40') <=> (counter * 10 <= 4 * REGION_SIZE)
          /\ (r \in lessThan60') <=>
                (counter * 10 > 4 * REGION_SIZE /\ counter * 10 <= 6 * REGION_SIZE)]_vars

\* ---- the chunk chain over a cycle ----
\* the next-chunk pointer of an array / chunk view
NextOf(mem, w) == readAddress(mem, w.region, w.atToNext).val

\* the view of the copy, after the pairs were merged, of the mono m
CopyView(pairs, m) == ViewOf(MonoAt(CopyOf(pairs, heapAddress(m)), m.kind))

\* C23: after minor GC, for every array or chunk of a merged region whose next
\* pointer targeted a chunk in a relocated source region, the next pointer
\* holds the header address of that chunk's copy in its merged region.
C23_NextPointersRewritten ==
  [][GCDone =>
      \A s \in Sources(LastPairs) : \A m \in MonosIn(heap, s) :
        (/\ m.kind \in {MONO_ARRAY_S8, MONO_CHUNK_S8}
         /\ NextOf(heap.mem, ViewOf(m)) # 0
         /\ NextOf(heap.mem, ViewOf(m)) \div REGION_SIZE \in Sources(LastPairs))
        => NextOf(heap'.mem, CopyView(LastPairs, m))
             = CopyOf(LastPairs, NextOf(heap.mem, ViewOf(m)))]_vars

\* ---- the order of the two passes of a cycle ----
\* the rebase entry mergeRegions records for the source region r of a pair
TableEntry(pairs, r) ==
  IF \E i \in 1..Len(pairs) : pairs[i].a = r
  THEN pairs[CHOOSE i \in 1..Len(pairs) : pairs[i].a = r].new * REGION_SIZE
  ELSE LET pr == pairs[CHOOSE i \in 1..Len(pairs) : pairs[i].b = r]
       IN SecondBase(pr.new * REGION_SIZE, pr.ca)

\* C25: the copy of every pair of a cycle is complete before any merged region
\* is swept: after the cycle every used pointer slot of an array or chunk of a
\* merged region whose target lay in a source of any pair of the cycle, the
\* later pairs included, has been rewritten through the rebase entry of that
\* source and points into that pair's merged region, whose counter covers
\* the monos of both of its sources.
C25_CopyBeforeSweep ==
  [][GCDone =>
      /\ \A i \in 1..Len(LastPairs) :
           heap'.ctr[LastPairs[i].new + 1]
             = MergedCounter(LastPairs[i].ca, LastPairs[i].cb)
      /\ \A s \in Sources(LastPairs) : \A m \in MonosIn(heap, s) :
           m.kind \in {MONO_ARRAY_S8, MONO_CHUNK_S8} =>
             \A idx \in UsedSlots(heap.mem, ViewOf(m)) :
               LET old == SlotOf(heap.mem, ViewOf(m), idx)
                   new == SlotOf(heap'.mem, CopyView(LastPairs, m), idx)
               IN old \div REGION_SIZE \in Sources(LastPairs) =>
                    /\ new = relocate(old, TableEntry(LastPairs, old \div REGION_SIZE))
                    /\ MergedRegionOf(LastPairs, new) # 0]_vars

\* a cycle of two pairs after which an array of the first merged region points
\* into the second merged region
C25_Witness ==
  /\ result.op = "minorGC" /\ result.err = "NONE"
  /\ Len(gcLog) = 1 /\ Len(gcLog[1]) = 2
  /\ \E m \in MonosIn(heap, gcLog[1][1].a) \cup MonosIn(heap, gcLog[1][1].b) :
       /\ m.kind = MONO_ARRAY_S8
       /\ \E idx \in UsedSlots(heap.mem, ViewOf(m)) :
            /\ SlotOf(heap.mem, ViewOf(m), idx) \div REGION_SIZE
                 \in {gcLog[1][2].a, gcLog[1][2].b}
            /\ SlotOf(heap.mem, CopyView(gcLog[1], m), idx) \div REGION_SIZE
                 = gcLog[1][2].new

\* ---- which regions a cycle pairs ----
\* the i-th region of a bucket, by region base
Nth(S, i) == CHOOSE x \in S : Cardinality({y \in S : y < x}) = i - 1

RegionBytes(mem, r) == [k \in 0..(REGION_SIZE - 1) |-> mem[r * REGION_SIZE + k]]

\* C26: a cycle that returns pairs the i-th lessThan40 region with the i-th
\* lessThan60 region for every i up to the size of the smaller bucket, creates
\* exactly that many regions, each holding the monos of its pair, and leaves
\* the bytes of every surplus region as they were; with an empty bucket it
\* creates no region and changes no byte of the heap.
C26_PairingPolicy ==
  [][result'.op = "minorGC" /\ result'.err = "NONE" /\ gcLog' # gcLog =>
      LET n == Min(Cardinality(lessThan40), Cardinality(lessThan60))
      IN /\ Len(LastPairs) = n
         /\ heap'.cc = heap.cc + n
         /\ \A i \in 1..n :
              /\ LastPairs[i].a = Nth(lessThan40, i)
              /\ LastPairs[i].b = Nth(lessThan60, i)
              /\ LastPairs[i].new = heap.cc + i - 1
              /\ TraverseKinds(heap'.mem, LastPairs[i].new, REGION_HEAD_SIZE,
                               heap'.ctr[LastPairs[i].new + 1])
                   = heap.made[Nth(lessThan40, i) + 1] \o heap.made[Nth(lessThan60, i) + 1]
         /\ \A r \in (lessThan40 \cup lessThan60) :
              (\A i \in 1..n : r \notin {Nth(lessThan40, i), Nth(lessThan60, i)})
                => RegionBytes(heap'.mem, r) = RegionBytes(heap.mem, r)
         /\ n = 0 => heap' = heap]_vars

\* a cycle merged one pair and left a surplus lessThan40 region that holds monos
C26_Witness ==
  /\ result.op = "minorGC" /\ result.err = "NONE"
  /\ Len(gcLog) = 1 /\ Len(gcLog[1]) = 1
  /\ Cardinality(lessThan40) = 2 /\ Cardinality(lessThan60) = 1
  /\ gcLog[1][1].a = Nth(lessThan40, 1)
  /\ heap.made[Nth(lessThan40, 1) + 1] # <<>>
  /\ heap.made[Nth(lessThan40, 2) + 1] # <<>>

\* ---- what the rewrite pass leaves alone ----
\* C27: the rewrite pass leaves every stored pointer whose target region is
\* not a key of the rebase table (no source of a pair of the cycle) as the
\* copy made it, and changes no INT32 or FLOAT64 payload and no header byte.
C27_RewriteFrame ==
  [][GCDone =>
      \A s \in Sources(LastPairs) : \A m \in MonosIn(heap, s) :
        /\ heap'.mem[CopyOf(LastPairs, heapAddress(m))] = heap.mem[heapAddress(m)]
        /\ m.kind \in {MONO_INT32, MONO_FLOAT64} =>
             Payload(heap'.mem, MonoAt(CopyOf(LastPairs, heapAddress(m)), m.kind))
               = Payload(heap.mem, m)
        /\ m.kind \in {MONO_ARRAY_S8, MONO_CHUNK_S8} =>
             \A idx \in UsedSlots(heap.mem, ViewOf(m)) :
               SlotOf(heap.mem, ViewOf(m), idx) \div REGION_SIZE \notin Sources(LastPairs)
                 => SlotOf(heap'.mem, CopyView(LastPairs, m), idx)
                      = SlotOf(heap.mem, ViewOf(m), idx)]_vars

\* a cycle relocated an array whose element lies in a region it did not
\* relocate, and left that slot as it was
C27_Witness ==
  /\ result.op = "minorGC" /\ result.err = "NONE"
  /\ Len(gcLog) = 1 /\ Len(gcLog[1]) >= 1
  /\ \E s \in Sources(gcLog[1]) : \E m \in MonosIn(heap, s) :
       /\ m.kind = MONO_ARRAY_S8
       /\ \E idx \in UsedSlots(heap.mem, ViewOf(m)) :
            /\ SlotOf(heap.mem, ViewOf(m), idx) \div REGION_SIZE \notin Sources(gcLog[1])
            /\ SlotOf(heap.mem, CopyView(gcLog[1], m), idx) = SlotOf(heap.mem, ViewOf(m), idx)

\* ---- traverse ----
\* the kinds of the monos region r holds, head to tail: those createMono made
\* in it, or those of the two sources of the pair it was merged from
KindsIn(r) ==
  IF \E c \in 1..Len(gcLog) : \E i \in 1..Len(gcLog[c]) : gcLog[c][i].new = r
  THEN LET c == CHOOSE c \in 1..Len(gcLog) : \E i \in 1..Len(gcLog[c]) : gcLog[c][i].new = r
           pr == gcLog[c][CHOOSE i \in 1..Len(gcLog[c]) : gcLog[c][i].new = r]
       IN heap.made[pr.a + 1] \o heap.made[pr.b + 1]
  ELSE heap.made[r + 1]

RECURSIVE SumSizesOf(_)
SumSizesOf(kinds) ==
  IF kinds = <<>> THEN 0 ELSE sizeFromKind(Head(kinds)) + SumSizesOf(Tail(kinds))

\* C28: traverse on a region built by createMono calls or by a merge returns,
\* having visited exactly the monos of [5, counter), once each, in address
\* order: the i-th mono visited has the i-th kind, begins where the one before
\* it ended, and the last one ends at counter - 1.
C28_TraverseVisitsAll ==
  result.op = "traverse" =>
    LET kinds == KindsIn(result.a1)
        visited == result.val
    IN /\ result.err = "NONE"
       /\ Len(visited) = Len(kinds)
       /\ \A i \in 1..Len(visited) :
            /\ visited[i].kind = kinds[i]
            /\ visited[i].beginFrom = OffsetOf(kinds, i)
            /\ visited[i].endAt + 1 = visited[i].beginFrom + sizeFromKind(kinds[i])
       /\ REGION_HEAD_SIZE + SumSizesOf(kinds) = heap.ctr[result.a1 + 1]

\* a merged region that holds monos of both of its sources was traversed
C28_Witness ==
  /\ result.op = "traverse" /\ result.err = "NONE"
  /\ Len(gcLog) = 1 /\ Len(gcLog[1]) = 1
  /\ result.a1 = gcLog[1][1].new
  /\ heap.made[gcLog[1][1].a + 1] # <<>>
  /\ heap.made[gcLog[1][1].b + 1] # <<>>
  /\ Len(result.val) = Len(heap.made[gcLog[1][1].a + 1]) + Len(heap.made[gcLog[1][1].b + 1])

\* ---- fetchMono of a mono's own address ----
\* what the client keeps of heap.fetchMono(address): the Mono it returned (f)
DoFetchBackOf(address, f) ==
  /\ heap' = [heap EXCEPT !.mem = f.mem]
  /\ result' = [op |-> "fetchBack", err |-> f.err, val |-> f.val,
                arr |-> -1, a1 |-> address, a2 |-> 0]
  /\ UNCHANGED <<arrays, scalars, held, appended, hostValue, gcVars>>

DoFetchBackAt(address) == DoFetchBackOf(address, fetchMono(heap.mem, address))

\* heap.fetchMono(newMono.heapAddress()), as in test()
DoFetchBack(mono) == DoFetchBackAt(heapAddress(mono))

MaxFetchRegions == 2

NextFetch ==
  \/ Cardinality(held) < MaxFetchRegions /\ DoCreateRegion
  \/ \E r \in held, kind \in KnownKinds :
        CreatedIn(r) < MaxMonos /\ DoCreateMono(r, kind)
  \/ \E e \in Unwritten, w \in {7} : DoWrite(e, w)
  \/ \E r \in held : \E mono \in MonosIn(heap, r) : DoFetchBack(mono)

SpecFetch == Init /\ [][NextFetch]_vars

\* the mono createMono made whose heap address is the given one
CreatedAt(address) ==
  CHOOSE mono \in UNION {MonosIn(heap, r) : r \in held} :
    mono.region * REGION_SIZE + mono.beginFrom = address

\* C29: fetchMono of the heap address of a mono createMono made returns a
\* descriptor of the same kind, the same begin and end offsets and the same
\* region as that mono, and a second fetchMono of the same address, with no
\* heap write in between, returns an equal descriptor.
C29_FetchBack ==
  [][/\ result'.op = "fetchBack" =>
          /\ result'.err = "NONE"
          /\ result'.val.kind = CreatedAt(result'.a1).kind
          /\ result'.val.beginFrom = CreatedAt(result'.a1).beginFrom
          /\ result'.val.endAt = CreatedAt(result'.a1).endAt
          /\ result'.val.region = CreatedAt(result'.a1).region
     /\ (result.op = "fetchBack" /\ result'.op = "fetchBack" /\ result'.a1 = result.a1)
          => result'.val = result.val]_vars

\* the second mono of the second region was fetched back after a scalar of the
\* heap had been written
C29_Witness ==
  /\ result.op = "fetchBack" /\ result.err = "NONE"
  /\ result.val.region = 1
  /\ result.val.beginFrom > REGION_HEAD_SIZE
  /\ \E e \in scalars : hostValue[e] # 0

\* ---- the client of a chunk: chunkAppend and chunkIndex called on it ----
\* the WrappedChunk a client holds for the chunk mono at heap address c
ChunkAt(c) == WrappedChunk(Mono(c \div REGION_SIZE, MONO_CHUNK_S8, c % REGION_SIZE))

\* the chunk monos createMono made, by heap address
Chunks ==
  {mono.region * REGION_SIZE + mono.beginFrom :
     mono \in {m \in UNION {MonosIn(heap, r) : r \in held} : m.kind = MONO_CHUNK_S8}}

\* the heap and the client once chunkAppend returned w
DoChunkAppendOf(c, e, w) ==
  /\ heap' = [heap EXCEPT !.mem = w.mem]
  /\ result' = [op |-> "chunkAppend", err |-> w.err, val |-> 0,
                arr |-> -1, a1 |-> c, a2 |-> e]
  /\ UNCHANGED <<arrays, scalars, held, appended, hostValue, gcVars>>

\* chunk.chunkAppend(wrapped), wrapped the scalar at heap address e
DoChunkAppend(c, e) == DoChunkAppendOf(c, e, chunkAppend(heap.mem, ChunkAt(c), e))

\* the heap and the client once chunkIndex returned f
DoChunkIndexOf(c, i, f) ==
  /\ heap' = [heap EXCEPT !.mem = f.mem]
  /\ result' = [op |-> "chunkIndex", err |-> f.err,
                val |-> IF f.err = "NONE" THEN heapAddress(f.val) ELSE 0,
                arr |-> -1, a1 |-> c, a2 |-> i]
  /\ UNCHANGED <<arrays, scalars, held, appended, hostValue, gcVars>>

\* chunk.chunkIndex(i)
DoChunkIndex(c, i) == DoChunkIndexOf(c, i, chunkIndex(heap.mem, ChunkAt(c), i))

MaxChunkMonos == 3

NextChunk ==
  \/ held = {} /\ DoCreateRegion
  \/ \E r \in held, kind \in {MONO_INT32, MONO_FLOAT64, MONO_CHUNK_S8} :
        CreatedIn(r) < MaxChunkMonos /\ DoCreateMono(r, kind)
  \/ \E c \in Chunks, e \in scalars : DoChunkAppend(c, e)
  \/ \E c \in Chunks, i \in 0..MONO_CHUNK_SIZE : DoChunkIndex(c, i)

SpecChunk == Init /\ [][NextChunk]_vars

\* C30: chunkIndex(i) fails with OUT_OF_RANGE when i is at or past the
\* chunk's length, whatever the length in 0..8, and chunkAppend on a chunk of
\* length 8 fails with CHUNK_FULL and leaves the heap as it was.
C30_ChunkBounds ==
  [][/\ (result'.op = "chunkIndex"
          /\ result'.a2 >= readChunkLength(heap.mem, ChunkAt(result'.a1)).val)
        => result'.err = "OUT_OF_RANGE"
     /\ (result'.op = "chunkAppend" /\ isChunkFull(heap.mem, ChunkAt(result'.a1)))
        => result'.err = "CHUNK_FULL" /\ heap'.mem = heap.mem]_vars

\* ---- the client that fills one region ----
NextFull ==
  \/ held = {} /\ DoCreateRegion
  \/ \E r \in held, kind \in {MONO_INT32, MONO_FLOAT64, MONO_ARRAY_S8, MONO_CHUNK_S8} :
        DoCreateMono(r, kind)

SpecFull == Init /\ [][NextFull]_vars

\* the region the client fills
FilledRegion == CHOOSE r \in held : TRUE

\* the bytes and both counters of the filled region are as before the step
RegionKept ==
  /\ heap'.ctr = heap.ctr
  /\ heap'.mem = heap.mem

NextCompact ==
  \/ Cardinality(held) < MaxHeld /\ DoCreateRegion
  \/ \E r \in held, kind \in {MONO_FLOAT64, MONO_ARRAY_S8} :
        /\ gcLog = <<>> /\ r \notin lessThan40 \cup lessThan60
        /\ CreatedIn(r) < MaxUsageMonos /\ DoCreateMono(r, kind)
  \/ \E r \in held, declared \in BOOLEAN : gcLog = <<>> /\ DoUpdateUsage(r, declared)
  \/ (lessThan40 # {} /\ lessThan60 # {}) /\ Len(gcLog) < MaxGCs /\ DoMinorGC

SpecCompact == Init /\ [][NextCompact]_vars

\* the pairs minorGC takes from the buckets as they are: the i-th key of one
\* with the i-th key of the other
PairsToMerge ==
  {<<SortedKeys(lessThan40)[i], SortedKeys(lessThan60)[i]>> :
     i \in 1..Min(Cardinality(lessThan40), Cardinality(lessThan60))}

MaxNullMonos == 2

NextNull ==
  \/ held = {} /\ DoCreateRegion
  \/ arrays = {} /\ AllocArray
  \/ \E v \in {7} : scalars = {} /\ AllocInt32(v)
  \/ \E a \in arrays, e \in scalars :
        gcLog = <<>> /\ length(heap.mem, a) < MaxLen /\ DoAppend(a, e)
  \/ \E r \in held, kind \in {MONO_ADDRESS, MONO_CHUNK_S8} :
        gcLog = <<>> /\ CreatedIn(r) < MaxNullMonos /\ DoCreateMono(r, kind)
  \/ \E r \in held \cup AllocatorRegions :
        lessThan40 = {} /\ r \notin lessThan60 /\ DoFile40(r)
  \/ \E r \in held \cup AllocatorRegions :
        lessThan60 = {} /\ r \notin lessThan40 /\ DoFile60(r)
  \/ Len(gcLog) < MaxGCs /\ DoMinorGC

SpecNull == Init /\ [][NextNull]_vars

\* the pointer an ADDRESS mono holds
AddressIn(mem, mono) == readInt32(mem, mono.region, mono.valueFrom).val

\* the slots of a chunk view that are past its length
UnusedSlots(mem, w) == (0..(MONO_CHUNK_SIZE - 1)) \ UsedSlots(mem, w)

MaxCycles == 2

NextTwice ==
  \/ Cardinality(held) < MaxHeld /\ DoCreateRegion
  \/ \E r \in held, kind \in {MONO_INT32, MONO_FLOAT64, MONO_CHUNK_S8} :
        CreatedIn(r) < MaxMonos /\ DoCreateMono(r, kind)
  \/ \E r \in held : r \notin lessThan40 \cup lessThan60 /\ DoFile40(r)
  \/ \E r \in held : r \notin lessThan40 \cup lessThan60 /\ DoFile60(r)
  \/ Len(gcLog) < MaxCycles /\ DoMinorGC

SpecTwice == Init /\ [][NextTwice]_vars

\* C34: the regions a minor GC cycle compacted are filed in no bucket once
\* the cycle has returned, and a minorGC that directly follows a minorGC
\* creates no region.
C34_CompactedOnce ==
  [][/\ GCDone => Sources(LastPairs) \cap (lessThan40' \cup lessThan60') = {}
     /\ (gcLog' # gcLog /\ result.op = "minorGC") => heap'.cc = heap.cc]_vars

\* ---- the pool of fresh regions ----
\* C35: no step lowers __contentCounter; a createRegion call that returns
\* raises it by exactly 1 and one that throws leaves it; a minor GC cycle
\* that returns having compacted k pairs raises it by exactly k, so k fewer
\* fresh regions are left, and a cycle that throws never lowers it.
C35_RegionsNeverReturned ==
  [][/\ heap'.cc >= heap.cc
     /\ (result'.op = "createRegion" /\ result' # result) =>
          heap'.cc = heap.cc + (IF result'.err = "NONE" THEN 1 ELSE 0)
     /\ GCDone => heap'.cc = heap.cc + Len(LastPairs)
     /\ (gcLog' # gcLog /\ result'.err = "NONE") =>
          (NumBuffers - heap'.cc) = (NumBuffers - heap.cc) - Len(LastPairs)]_vars

\* a cycle compacted two pairs and took the last two fresh regions
C35_Witness ==
  /\ result.op = "minorGC" /\ result.err = "NONE"
  /\ Len(gcLog) = 1 /\ Len(gcLog[1]) = 2
  /\ heap.cc = NumBuffers
  /\ held \cup {0} = Sources(gcLog[1])

\* ---- the client that builds arrays from arrays ----
MaxShareLen == 9
MaxShared == 3

NextShare ==
  \/ \E v \in {7} : scalars = {} /\ AllocInt32(v)
  \/ Cardinality(arrays) < MaxShared /\ AllocArray
  \/ \E a \in arrays, e \in scalars : length(heap.mem, a) < MaxShareLen /\ DoAppend(a, e)
  \/ \E a \in arrays : Cardinality(arrays) < MaxShared /\ DoClone(a)
  \/ \E a \in arrays, from \in {0, 1}, to \in {0, MaxShareLen - 1} :
        Cardinality(arrays) < MaxShared /\ DoSlice(a, from, to)
  \/ \E a \in arrays, b \in arrays : Cardinality(arrays) < MaxShared /\ DoConcat(a, b)

SpecShare == Init /\ [][NextShare]_vars

\* the heap addresses of the chunks of an array's chain, the array's own
\* embedded chunk first
ChainAddresses(a) ==
  {ChainOf(a)[j].region * REGION_SIZE + ChainOf(a)[j].beginFrom : j \in 1..Len(ChainOf(a))}

\* max(1, ceil(n / 8))
ChunksFor(n) == IF n = 0 THEN 1 ELSE (n + MONO_CHUNK_SIZE - 1) \div MONO_CHUNK_SIZE

\* C36: with no GC, the chain of every array the client holds reaches a zero
\* next pointer after exactly max(1, ceil(length/8)) - 1 hops, passes no
\* chunk twice, and shares no chunk with the chain of another array.
C36_ChainsDisjoint ==
  /\ \A a \in arrays :
       /\ Len(ChainOf(a)) - 1 = ChunksFor(length(heap.mem, a)) - 1
       /\ Cardinality(ChainAddresses(a)) = Len(ChainOf(a))
       /\ NextOf(heap.mem, ChainOf(a)[Len(ChainOf(a))]) = 0
  /\ \A a \in arrays : \A b \in arrays \ {a} :
       ChainAddresses(a) \cap ChainAddresses(b) = {}

\* a clone of an array of nine elements is held next to it, each with a
\* chunk of its own behind the embedded one
C36_Witness ==
  /\ result.op = "clone" /\ result.err = "NONE"
  /\ result.val \in arrays /\ result.arr \in arrays
  /\ length(heap.mem, result.val) = MaxShareLen
  /\ length(heap.mem, result.arr) = MaxShareLen
  /\ Len(ChainOf(result.val)) = 2
  /\ Len(ChainOf(result.arr)) = 2

\* ---- the client that appends on an exhausted heap ----
NextExhaust ==
  \/ DoCreateRegion
  \/ \E v \in {7} : scalars = {} /\ AllocInt32(v)
  \/ arrays = {} /\ AllocArray
  \/ \E a \in arrays, e \in scalars : length(heap.mem, a) < MaxShareLen /\ DoAppend(a, e)

SpecExhaust == Init /\ [][NextExhaust]_vars

\* C37: an append that needs a new chunk while createRegion throws OOM
\* leaves the heap as it was: the array's length, every chunk's length and
\* slots, every next pointer, the region counters and the allocator's region
\* list are those of before the call.
C37_FailedAppendAtomic ==
  [][(result'.op = "append" /\ result'.err = "OOM") =>
       /\ heap'.mem = heap.mem
       /\ heap'.regs = heap.regs
       /\ heap'.ctr = heap.ctr
       /\ heap'.cc = heap.cc]_vars

\* the ninth append to an array failed for want of a region, and the array
\* still has eight elements and no second chunk
C37_Witness ==
  /\ result.op = "append" /\ result.err = "OOM"
  /\ heap.cc = NumBuffers
  /\ \E a \in arrays :
       /\ length(heap.mem, a) = MONO_CHUNK_SIZE
       /\ Len(ChainOf(a)) = 1
       /\ NextOf(heap.mem, ArrayAt(a)) = 0

\* ---- fetches and the heap bytes ----
\* C38: fetchMono and fetchRegion change no byte of any buffer and leave
\* __contentCounter as it was, for every address, those in buffers that
\* createRegion has not handed out included.
C38_FetchIsPure ==
  [][result'.op \in {"fetchMono", "fetchRegion"} =>
       heap'.mem = heap.mem /\ heap'.cc = heap.cc]_vars

====
